---- MODULE Spec2Model ----
(***************************************************************************)
(* InsureFlow console: the claim and policy lifecycle as the views drive   *)
(* it.  The claims view (src/src/pages/Claims.tsx) and the policies view   *)
(* (src/src/pages/Policies.tsx) are modelled with the session              *)
(* (src/src/context/AuthContext.tsx), the query cache they read their      *)
(* lists from, the requests they have in flight, and the HTTP collaborator *)
(* that answers them.                                                      *)
(***************************************************************************)
EXTENDS Integers, FiniteSets, Sequences, TLC

(* ------------------------------------------------------------------ *)
(* Bounds of the model                                                  *)
(* ------------------------------------------------------------------ *)
\* number of claims the collaborator can hold
MaxClaims == 1
\* number of policies the collaborator holds
MaxPolicies == 1

ClaimIds == 1..MaxClaims
PolicyIds == 1..MaxPolicies

(* ------------------------------------------------------------------ *)
(* Values                                                               *)
(* ------------------------------------------------------------------ *)
\* JavaScript values a payout can be: a number, NaN, null or undefined
Num(n) == [t |-> "number", v |-> n]
NaN == [t |-> "NaN", v |-> 0]
Null == [t |-> "null", v |-> 0]
Undefined == [t |-> "undefined", v |-> 0]

\* x ?? d
Coalesce(x, d) == IF x.t \in {"null", "undefined"} THEN d ELSE x

Role == {"USER", "ADMIN"}
ClaimStatus == {"DRAFT", "SUBMITTED", "APPROVED", "DENIED"}

\* the users that can sign in: the two demo accounts of the login page
AuthUsers == {[username |-> "user", role |-> "USER", userId |-> "u1"],
              [username |-> "admin", role |-> "ADMIN", userId |-> "a1"]}
NoUser == [username |-> "", role |-> "NONE", userId |-> ""]

\* a claim as the views hold it; status "NONE" marks an id no claim has
Claim(id, st, pay) == [claimId |-> id, status |-> st, payoutAmount |-> pay]
NoClaim == Claim(0, "NONE", Null)
EmptyClaims == [c \in ClaimIds |-> Claim(c, "NONE", Null)]

\* a policy as the views hold it; status "NONE" marks an id no row has
Policy(id, owner, st) == [policyId |-> id, userId |-> owner, status |-> st]
NoPolicy == Policy(0, "", "NONE")

\* what the payout input of the review form can hold (valueAsNumber)
PayoutInputs == {NaN, Num(0 - 1), Num(0), Num(500)}
\* lengths of the texts typed into the fields of the create-claim form
TextLengths(field) == IF field = "policyId" THEN {0, 3} ELSE {0, 6}

VARIABLES
  user,           \* AuthContext: the signed-in user, or NoUser
  page,           \* the routed page that is mounted
  claimsDb,       \* collaborator: the claims it holds
  claimsQuery,    \* query cache entry of the claims list
  claimsAction,   \* ClaimsPage: action
  selectedClaim,  \* ClaimsPage: selectedClaim
  adjudicateForm, \* ClaimsPage: values of adjudicateForm
  newClaimForm,   \* ClaimsPage: values of newClaimForm
  reqs,           \* mutation requests of the claims view in flight
  authToken,      \* api/client.ts: authToken, as the user the token names
  token,          \* AuthContext: token, or Null
  storage,        \* localStorage: the token under STORAGE_KEY, or Null
  backendScoped,  \* collaborator: whether GET /policies is scoped to the caller
  policiesDb,     \* collaborator: the policies it holds
  policyQueries,  \* query cache entries of the policy lists, by query key
  policyAction,   \* PoliciesPage: action
  selectedPolicy, \* PoliciesPage: selectedPolicy
  renewForm,      \* PoliciesPage: values of renewForm
  suspendForm,    \* PoliciesPage: values of suspendForm
  policyReqs,     \* mutation requests of the policies view in flight
  quoteForm,      \* QuotesPage: values of form
  quoteResult,    \* QuotesPage: quoteResult
  createForm,     \* PoliciesPage: values of createForm
  createReqs,     \* POST /policies requests in flight
  policyReplies,  \* answers to GET /policies on their way to the query cache
  uploading,      \* ClaimsPage: uploading
  loadingDocuments, \* ClaimsPage: loadingDocuments
  documents,      \* ClaimsPage: documents
  viewedPolicy,   \* ClaimsPage: selectedPolicy
  loadingPolicy,  \* ClaimsPage: loadingPolicy
  calls,          \* collaborator calls of the claims view that are not mutations
  lastToast,      \* ToastContext: the notification shown last
  unhandled,      \* whether a promise rejection has escaped its handler
  claimsStatusFilter,   \* ClaimsPage: statusFilter
  policiesStatusFilter, \* PoliciesPage: statusFilter
  listCalls,      \* the list requests that a change of a status filter has sent
  formatValue,    \* utils/format.ts: the value handed to formatNumber
  formatted,      \* utils/format.ts: what formatNumber returned, character by character
  premiumInputs,  \* the request whose reply was written to createForm.premium last
  quoteResultInputs, \* the request whose reply was stored in quoteResult last
  documentsOf,    \* the claim whose list was stored in documents last, or 0
  claimsFetchedBy, \* the holder of the token that the list in claimsQuery was fetched with
  flush,          \* React: the passive effects of the commit that have yet to run
  outbox,         \* axios: the requests made, before and after the request interceptor
  toasts,         \* ToastContext: toasts
  timers,         \* window.setTimeout: the ids of the toasts whose timeout is pending
  nextToastId     \* uuid(): the ids given out so far

sessionVars == <<user, page, authToken, token, storage>>
claimsViewVars == <<claimsAction, selectedClaim, adjudicateForm, newClaimForm>>
claimsVars == <<claimsDb, claimsQuery, claimsViewVars, reqs>>
policiesViewVars == <<policyAction, selectedPolicy, renewForm, suspendForm, createForm>>
policiesVars == <<backendScoped, policiesDb, policyQueries, policiesViewVars, policyReqs>>

createVars == <<quoteForm, quoteResult, createReqs>>
evidenceViewVars == <<uploading, loadingDocuments, documents, viewedPolicy, loadingPolicy>>
evidenceVars == <<evidenceViewVars, calls, lastToast, unhandled>>
\* the variables of the views a specification leaves aside
\* the status filters of the two list views and the list requests sent
filterVars == <<claimsStatusFilter, policiesStatusFilter, listCalls>>
\* the number a metric of the dashboard renders, and its rendering
formatVars == <<formatValue, formatted>>
\* the form values that the quotes on display were calculated for
quotedVars == <<premiumInputs, quoteResultInputs>>
\* whom the lists on display were fetched for
originVars == <<documentsOf, claimsFetchedBy>>
\* the commit of a session and the requests of the views it mounts
headerVars == <<flush, outbox>>
\* the toast list
toastVars == <<toasts, timers, nextToastId>>
pastOriginVars == <<headerVars, toastVars>>
pastQuotedVars == <<originVars, pastOriginVars>>
pastFormatVars == <<quotedVars, pastQuotedVars>>
restVars == <<formatVars, pastFormatVars>>
moreVars == <<filterVars, restVars>>
laterVars == <<createVars, policyReplies, moreVars>>

vars == <<sessionVars, claimsVars, policiesVars, evidenceVars, laterVars>>

(* ------------------------------------------------------------------ *)
(* Collaborator (claims)                                                *)
(* ------------------------------------------------------------------ *)
\* payout the collaborator stores for a claim of the given status
StoredPayout(st, pay) ==
  IF st = "APPROVED" THEN pay ELSE IF st = "DENIED" THEN Num(0) ELSE Null

\* the claim stores the collaborator can start from: ids are given out in
\* order, an approved claim carries its payout
InitialClaimStores ==
  {db \in [ClaimIds -> [claimId : ClaimIds, status : ClaimStatus \cup {"NONE"},
                        payoutAmount : {Null, Num(0), Num(500)}]] :
     /\ \A c \in ClaimIds :
          /\ db[c].claimId = c
          /\ db[c].payoutAmount = StoredPayout(db[c].status, Num(500))
     /\ \A c \in ClaimIds : (c > 1 /\ db[c].status # "NONE") => db[c - 1].status # "NONE"}

\* POST /claims/{id}/submit: legal only from DRAFT
ServerSubmit(db, id) ==
  IF db[id].status = "DRAFT"
    THEN [db EXCEPT ![id] = Claim(id, "SUBMITTED", Null)]
    ELSE db

\* POST /claims/{id}/adjudicate: legal only from SUBMITTED, terminal after
ServerAdjudicate(db, id, decision, pay) ==
  IF db[id].status = "SUBMITTED"
    THEN [db EXCEPT ![id] = Claim(id, decision, StoredPayout(decision, pay))]
    ELSE db

\* POST /claims: the new claim is a DRAFT under the next free id
FreeClaimIds(db) == {c \in ClaimIds : db[c].status = "NONE"}
ServerCreate(db) ==
  IF FreeClaimIds(db) = {} THEN db
  ELSE LET id == CHOOSE c \in FreeClaimIds(db) : \A d \in FreeClaimIds(db) : c <= d
       IN [db EXCEPT ![id] = Claim(id, "DRAFT", Null)]

(* ------------------------------------------------------------------ *)
(* Requests in flight                                                   *)
(* ------------------------------------------------------------------ *)
\* a mutation request of the mounted view: phase sent, then ok once the
\* collaborator has carried it out and until the success callback has run
Req(kind, id, decision, pay) ==
  [kind |-> kind, claimId |-> id, decision |-> decision, payoutAmount |-> pay,
   phase |-> "sent"]

\* useMutation(...).isPending
isPending(kind) == \E r \in reqs : r.kind = kind

(* ------------------------------------------------------------------ *)
(* The claims list query                                               *)
(* ------------------------------------------------------------------ *)
IdleQuery == [data |-> EmptyClaims, stale |-> TRUE, fetch |-> "idle"]

\* a query observer mounts: stale (or absent) data is fetched, unless a
\* fetch of the key is already under way
MountQuery(q) == IF q.stale /\ q.fetch = "idle" THEN [q EXCEPT !.fetch = "sent"] ELSE q

\* queryClient.invalidateQueries({ queryKey: ["claims"] }): the entry is
\* marked stale; with an observer mounted it is refetched, a fetch under way
\* being cancelled for the new one
invalidateClaims(q, active) ==
  IF active THEN [q EXCEPT !.stale = TRUE, !.fetch = "sent"]
  ELSE [q EXCEPT !.stale = TRUE]

\* data: claims = [] , the rows of the table
claims == claimsQuery.data
Rows == {claims[c] : c \in {d \in ClaimIds : claims[d].status # "NONE"}}

(* ------------------------------------------------------------------ *)
(* ClaimsPage: schemas and render conditions                           *)
(* ------------------------------------------------------------------ *)
\* createClaimSchema: policyId of 3 characters or more, description of 6
createClaimSchema(values) == values.policyId >= 3 /\ values.description >= 6

\* mutant: the field without nonnegative()
payoutFieldAnyNumber(p) == p.t \in {"undefined", "number"}

\* payoutField.nonnegative().optional(): undefined passes, anything else
\* has to be a number, not NaN, and >= 0
payoutFieldOptional(p) == p.t = "undefined" \/ (p.t = "number" /\ p.v >= 0)

\* adjudicateSchema
adjudicateSchema(values) ==
  /\ values.decision \in {"APPROVED", "DENIED"}
  /\ payoutFieldOptional(values.payoutAmount)

\* mutant: the payout of the form is passed on whatever the decision
adjudicatePayoutAsEntered(values) == values.payoutAmount

\* the payout the adjudicate form hands to adjudicateMutation.mutate
adjudicatePayout(values) ==
  IF values.decision = "APPROVED" THEN values.payoutAmount ELSE Num(0)

\* disabled={row.status !== "DRAFT"} of the row's Submit button
submitDisabled(row) == row.status # "DRAFT"

\* mutant: View Policy and Review are rendered for every signed-in user
adminActionsShownToAll == user.role \in Role

\* {user?.role === "ADMIN" && ...}: View Policy and Review are rendered
adminActionsShown == user.role = "ADMIN"

ClaimsAction == {"create", "upload", "submit", "adjudicate", "documents", "viewPolicy"}
NoAction == "null"

\* the row buttons that can be pressed
rowActionOffered(row, next) ==
  CASE next = "submit" -> ~submitDisabled(row)
    [] next \in {"viewPolicy", "adjudicate"} -> adminActionsShown
    [] OTHER -> next \in {"documents", "upload"}

\* isOpen of the modal of an action
modalOpen(a) ==
  IF a = "create" THEN claimsAction = "create"
  ELSE claimsAction = a /\ selectedClaim # NoClaim
\* an open modal is a dialog (aria-modal) whose backdrop covers the page:
\* the toolbar and the table are used while no modal is open
anyModalOpen == \E a \in ClaimsAction : modalOpen(a)

BlankAdjudicateForm == [decision |-> "", payoutAmount |-> Undefined]
BlankNewClaimForm == [policyId |-> 0, description |-> 0]

ClaimsPageMounted == page = "claims"

(* ------------------------------------------------------------------ *)
(* ToastContext                                                        *)
(* ------------------------------------------------------------------ *)
\* showToast({ title, description, variant }); status and body are the
\* parts of a description that is built from a response
Toast(variant, title, status, body) ==
  [variant |-> variant, title |-> title, status |-> status, body |-> body]
\* no notification has been shown
NoToast == Toast("none", "", 0, "")

(* ------------------------------------------------------------------ *)
(* ClaimsPage: documents, upload and policy lookup                     *)
(* ------------------------------------------------------------------ *)
\* calls of the claims view that can be outstanding together
MaxCalls == 2

\* file.type of the file chosen; "" is a file of unknown type
FileTypes == {"image/png", ""}
\* contentType of the presign response: the declared one, another one,
\* or none ("")
PresignTypes(declared) == {declared, "application/octet-stream", ""}
\* what the storage collaborator answers a PUT it does not accept
PutFailures == {[status |-> 403, body |-> "SignatureDoesNotMatch"]}
\* items of GET /docs/{claimId}/list
DocumentListings == {{}, {"doc-1"}}

\* a collaborator call in flight that is not a mutation: op is "documents"
\* (openAction), "policy" (openAction), "presign", "put" and "list" (the
\* three awaits of handleUpload) or "download"; declared is the
\* contentType of the presign request, returned the one of its response,
\* header the Content-Type of the PUT
Call(op, id, declared, returned, header) ==
  [op |-> op, claimId |-> id, declared |-> declared, returned |-> returned, header |-> header]
UploadCalls == {c \in calls : c.op \in {"presign", "put", "list"}}

\* mutant: the header is the type of the file
contentTypeOfFile(returned, fileType) == fileType

\* the Content-Type of the PUT: headers["Content-Type"] = presign.contentType
\* if the response has one; without it fetch sends the type of the File,
\* and none ("") for a file of unknown type
contentTypeSent(returned, fileType) == IF returned # "" THEN returned ELSE fileType

(* ------------------------------------------------------------------ *)
(* ClaimsPage: handlers                                                 *)
(* ------------------------------------------------------------------ *)
\* the state closeModal leaves
closeModalEffect ==
  /\ claimsAction' = NoAction
  /\ selectedClaim' = NoClaim
  /\ newClaimForm' = BlankNewClaimForm
  /\ adjudicateForm' = BlankAdjudicateForm
  /\ viewedPolicy' = NoPolicy
  /\ documents' = {}
  /\ loadingDocuments' = FALSE
  /\ loadingPolicy' = FALSE

\* Cancel, the modal's close button or Escape
closeModal ==
  /\ ClaimsPageMounted
  /\ anyModalOpen
  /\ closeModalEffect
  /\ UNCHANGED <<laterVars, uploading, calls, lastToast, unhandled, policiesVars, sessionVars, claimsDb, claimsQuery, reqs>>

\* the New Claim button
newClaimClick ==
  /\ ClaimsPageMounted
  /\ ~anyModalOpen
  /\ claimsAction' = "create"
  /\ UNCHANGED <<laterVars, evidenceVars, policiesVars, sessionVars, claimsDb, claimsQuery, selectedClaim, adjudicateForm,
                 newClaimForm, reqs>>

\* a row button: openAction(row, next)
openAction(row, next) ==
  /\ ClaimsPageMounted
  /\ ~anyModalOpen
  /\ rowActionOffered(row, next)
  /\ next \in {"documents", "viewPolicy"} => Cardinality(calls) < MaxCalls
  /\ selectedClaim' = row
  /\ claimsAction' = next
  /\ adjudicateForm' =
       IF next = "adjudicate"
         THEN [decision |-> "APPROVED", payoutAmount |-> Coalesce(row.payoutAmount, Num(0))]
         ELSE adjudicateForm
  /\ loadingDocuments' = IF next = "documents" THEN TRUE ELSE loadingDocuments
  /\ loadingPolicy' = IF next = "viewPolicy" THEN TRUE ELSE loadingPolicy
  /\ calls' =
       CASE next = "documents" -> calls \cup {Call("documents", row.claimId, "", "", "")}
         [] next = "viewPolicy" -> calls \cup {Call("policy", row.claimId, "", "", "")}
         [] OTHER -> calls
  /\ UNCHANGED <<laterVars, uploading, documents, viewedPolicy, lastToast, unhandled, policiesVars, sessionVars, claimsDb, claimsQuery, newClaimForm, reqs>>

\* typing into the create-claim form
newClaimInput(field, len) ==
  /\ ClaimsPageMounted
  /\ modalOpen("create")
  /\ newClaimForm' = [newClaimForm EXCEPT ![field] = len]
  /\ UNCHANGED <<laterVars, evidenceVars, policiesVars, sessionVars, claimsDb, claimsQuery, claimsAction, selectedClaim,
                 adjudicateForm, reqs>>

\* the Decision select of the review form
decisionInput(d) ==
  /\ ClaimsPageMounted
  /\ modalOpen("adjudicate")
  /\ adjudicateForm' = [adjudicateForm EXCEPT !.decision = d]
  /\ UNCHANGED <<laterVars, evidenceVars, policiesVars, sessionVars, claimsDb, claimsQuery, claimsAction, selectedClaim,
                 newClaimForm, reqs>>

\* the Payout amount input, rendered while the decision is APPROVED
payoutInput(p) ==
  /\ ClaimsPageMounted
  /\ modalOpen("adjudicate")
  /\ adjudicateForm.decision = "APPROVED"
  /\ adjudicateForm' = [adjudicateForm EXCEPT !.payoutAmount = p]
  /\ UNCHANGED <<laterVars, evidenceVars, policiesVars, sessionVars, claimsDb, claimsQuery, claimsAction, selectedClaim,
                 newClaimForm, reqs>>

\* Create: newClaimForm.handleSubmit(values => createMutation.mutate(values))
createSubmit ==
  /\ ClaimsPageMounted
  /\ modalOpen("create")
  /\ ~isPending("create")
  /\ createClaimSchema(newClaimForm)
  /\ reqs' = reqs \cup {Req("create", 0, "", Null)}
  /\ UNCHANGED <<laterVars, evidenceVars, policiesVars, sessionVars, claimsDb, claimsQuery, claimsViewVars>>

\* Submit claim: selectedClaim && submitMutation.mutate(selectedClaim.claimId)
submitClick ==
  /\ ClaimsPageMounted
  /\ modalOpen("submit")
  /\ ~isPending("submit")
  /\ reqs' = reqs \cup {Req("submit", selectedClaim.claimId, "", Null)}
  /\ UNCHANGED <<laterVars, evidenceVars, policiesVars, sessionVars, claimsDb, claimsQuery, claimsViewVars>>

\* Save decision: adjudicateForm.handleSubmit(values => selectedClaim &&
\* adjudicateMutation.mutate({claimId, decision, payoutAmount}))
adjudicateSubmit ==
  /\ ClaimsPageMounted
  /\ modalOpen("adjudicate")
  /\ ~isPending("adjudicate")
  /\ adjudicateSchema(adjudicateForm)
  /\ reqs' = reqs \cup {Req("adjudicate", selectedClaim.claimId, adjudicateForm.decision,
                            adjudicatePayout(adjudicateForm))}
  /\ UNCHANGED <<laterVars, evidenceVars, policiesVars, sessionVars, claimsDb, claimsQuery, claimsViewVars>>

(* ------------------------------------------------------------------ *)
(* The collaborator answers, the mutation callbacks run                 *)
(* ------------------------------------------------------------------ *)
\* whether the collaborator accepts the request in its present state
ServerAccepts(db, r) ==
  CASE r.kind = "submit" -> db[r.claimId].status = "DRAFT"
    [] r.kind = "adjudicate" -> db[r.claimId].status = "SUBMITTED"
    [] r.kind = "create" -> FreeClaimIds(db) # {}
    [] OTHER -> FALSE

ServerApply(db, r) ==
  CASE r.kind = "submit" -> ServerSubmit(db, r.claimId)
    [] r.kind = "adjudicate" -> ServerAdjudicate(db, r.claimId, r.decision, r.payoutAmount)
    [] r.kind = "create" -> ServerCreate(db)
    [] OTHER -> db

\* the collaborator carries the request out and answers 2xx
serverOk(r) ==
  /\ r \in reqs /\ r.phase = "sent"
  /\ ServerAccepts(claimsDb, r)
  /\ claimsDb' = ServerApply(claimsDb, r)
  /\ reqs' = (reqs \ {r}) \cup {[r EXCEPT !.phase = "ok"]}
  /\ UNCHANGED <<laterVars, evidenceVars, policiesVars, sessionVars, claimsQuery, claimsViewVars>>

\* onSuccess of createMutation, submitMutation and adjudicateMutation:
\* invalidateQueries, toast, closeModal
onSuccess(r) ==
  /\ r \in reqs /\ r.phase = "ok"
  /\ claimsQuery' = invalidateClaims(claimsQuery, ClaimsPageMounted)
  /\ closeModalEffect
  /\ reqs' = reqs \ {r}
  /\ UNCHANGED <<laterVars, uploading, calls, lastToast, unhandled, policiesVars, sessionVars, claimsDb>>

\* the collaborator rejects the request or the network fails, and onError
\* of the mutation runs: a toast, nothing else
onError(r) ==
  /\ r \in reqs /\ r.phase = "sent"
  /\ reqs' = reqs \ {r}
  /\ UNCHANGED <<laterVars, evidenceVars, policiesVars, sessionVars, claimsDb, claimsQuery, claimsViewVars>>

(* ------------------------------------------------------------------ *)
(* The claims list is fetched                                          *)
(* ------------------------------------------------------------------ *)
\* GET /claims is answered with the claims the collaborator holds: they
\* are the data of the query, fresh again
fetchClaimsStored ==
  /\ claimsQuery.fetch = "sent"
  /\ claimsQuery' = [data |-> claimsDb, stale |-> FALSE, fetch |-> "idle"]

fetchClaimsSettled ==
  /\ fetchClaimsStored
  /\ UNCHANGED <<laterVars, evidenceVars, policiesVars, sessionVars, claimsDb, claimsViewVars, reqs>>

\* fetchClaimsSettled, with the holder of the token of the request put on
\* record; the token of the api client is the one of the request as long
\* as the session of the request lasts
fetchClaimsSettledFor ==
  /\ fetchClaimsStored
  /\ claimsFetchedBy' = authToken
  /\ UNCHANGED <<createVars, policyReplies, filterVars, formatVars, quotedVars, documentsOf,
                 pastOriginVars, evidenceVars, policiesVars, sessionVars, claimsDb,
                 claimsViewVars, reqs>>

\* the fetch fails: the data stays what it was
fetchClaimsFailed ==
  /\ claimsQuery.fetch = "sent"
  /\ claimsQuery' = [claimsQuery EXCEPT !.fetch = "idle"]
  /\ UNCHANGED <<laterVars, evidenceVars, policiesVars, sessionVars, claimsDb, claimsViewVars, reqs>>

\* staleTime (60 s) passes since the data arrived
staleTimeElapsed ==
  /\ ~claimsQuery.stale
  /\ claimsQuery' = [claimsQuery EXCEPT !.stale = TRUE]
  /\ UNCHANGED <<laterVars, evidenceVars, policiesVars, sessionVars, claimsDb, claimsViewVars, reqs>>

(* ------------------------------------------------------------------ *)
(* Policies: values and collaborator                                   *)
(* ------------------------------------------------------------------ *)
PolicyStatus == {"ACTIVE", "SUSPENDED", "CANCELLED", "EXPIRED"}

EmptyPolicies == [p \in PolicyIds |-> Policy(p, "", "NONE")]

\* the holders of policies: the demo user and another customer
PolicyHolders == {"u1", "u2"}

\* the policy stores the collaborator can start from
InitialPolicyStores ==
  {db \in [PolicyIds -> [policyId : PolicyIds, userId : PolicyHolders, status : PolicyStatus]] :
     \A p \in PolicyIds : db[p].policyId = p}

\* POST /policies/{id}/suspend: legal only from ACTIVE
ServerSuspend(db, id) ==
  IF db[id].status = "ACTIVE" THEN [db EXCEPT ![id].status = "SUSPENDED"] ELSE db

\* POST /policies/{id}/reinstate: legal only from SUSPENDED
ServerReinstate(db, id) ==
  IF db[id].status = "SUSPENDED" THEN [db EXCEPT ![id].status = "ACTIVE"] ELSE db

\* GET /policies as the holder of a token: an ADMIN receives every policy;
\* any other caller receives the policies whose userId is the caller's own
\* when the collaborator scopes the list, and every policy when it does not
ServerListPolicies(db, caller, scoped) ==
  [p \in PolicyIds |->
     IF caller.role = "ADMIN" \/ ~scoped \/ db[p].userId = caller.userId
       THEN db[p] ELSE Policy(p, "", "NONE")]

\* whether the collaborator accepts a policy request in its present state
ServerAcceptsPolicy(db, r) ==
  CASE r.kind = "suspend" -> db[r.policyId].status = "ACTIVE"
    [] r.kind = "reinstate" -> db[r.policyId].status = "SUSPENDED"
    [] r.kind = "renew" -> TRUE
    [] OTHER -> FALSE

\* a renewal moves the end date, which the model does not hold
ServerApplyPolicy(db, r) ==
  CASE r.kind = "suspend" -> ServerSuspend(db, r.policyId)
    [] r.kind = "reinstate" -> ServerReinstate(db, r.policyId)
    [] OTHER -> db

(* ------------------------------------------------------------------ *)
(* Policies: requests in flight and the list queries                   *)
(* ------------------------------------------------------------------ *)
PolicyReq(kind, id, months, reason) ==
  [kind |-> kind, policyId |-> id, extendMonths |-> months, reason |-> reason,
   phase |-> "sent"]

\* renewMutation.isPending, suspendMutation.isPending, reinstateMutation.isPending
policyPending(kind) == \E r \in policyReqs : r.kind = kind

\* const isAdmin = user?.role === "ADMIN"
isAdmin == user.role = "ADMIN"

\* third part of the query key of both lists
Scopes == {"all"} \cup {u.userId : u \in {a \in AuthUsers : a.role # "ADMIN"}}
PolicyQueryKeys == [view : {"policies", "dashboard"}, scope : Scopes]

\* mutant: the key of the policies list without the user's scope
policiesQueryKeyUnscoped(u) == [view |-> "policies", scope |-> "all"]

\* PoliciesPage: ["policies", statusFilter, isAdmin ? "all" : user?.userId],
\* the status filter left at ALL
policiesQueryKey(u) ==
  [view |-> "policies", scope |-> IF u.role = "ADMIN" THEN "all" ELSE u.userId]

\* DashboardPage: ["policies", isAdmin ? "all" : user?.userId]
dashboardQueryKey(u) ==
  [view |-> "dashboard", scope |-> IF u.role = "ADMIN" THEN "all" ELSE u.userId]

\* a cache entry; by is the holder of the token a fetch under way was sent with
IdlePolicyQuery == [data |-> EmptyPolicies, stale |-> TRUE, fetch |-> "idle", by |-> NoUser]

\* a query observer mounts (see MountQuery); the request interceptor adds
\* the Authorization header of authToken
MountPolicyQuery(q, bearer) ==
  IF q.stale /\ q.fetch = "idle" THEN [q EXCEPT !.fetch = "sent", !.by = bearer] ELSE q

\* queryClient.invalidateQueries({ queryKey: ["policies"] }): every entry
\* under the prefix is marked stale, the ones with an observer are refetched
invalidatePolicies(qs, active, bearer) ==
  [k \in PolicyQueryKeys |->
     IF k \in active THEN [qs[k] EXCEPT !.stale = TRUE, !.fetch = "sent", !.by = bearer]
     ELSE [qs[k] EXCEPT !.stale = TRUE]]

\* data: policies = [], the rows of the two lists; enabled: !!user
policies ==
  IF user = NoUser THEN EmptyPolicies ELSE policyQueries[policiesQueryKey(user)].data
dashboardPolicies ==
  IF user = NoUser THEN EmptyPolicies ELSE policyQueries[dashboardQueryKey(user)].data
RowsOf(data) == {data[p] : p \in {d \in PolicyIds : data[d].status # "NONE"}}
PolicyRows == RowsOf(policies)

(* ------------------------------------------------------------------ *)
(* PoliciesPage: schemas and render conditions                         *)
(* ------------------------------------------------------------------ *)
\* a number that is not whole, as a number input can hold it
NonInteger == [t |-> "nonInteger", v |-> 1]
\* what the months input of the renew form can hold (valueAsNumber)
RenewInputs == {NaN, NonInteger, Num(0)}
\* lengths of the reason typed into the suspend form
ReasonLengths == {0, 4}

\* renewSchema: extendMonths a whole number, greater than 0, at least 1
renewSchema(values) == values.extendMonths.t = "number" /\ values.extendMonths.v >= 1

\* suspendSchema: a reason of 4 characters or more
suspendSchema(values) == values.reason >= 4

\* mutant: Renew rendered on every row
canRenewAnyRow(row) == TRUE

\* const canRenew = isAdmin || user?.userId === row.userId
canRenew(row) == isAdmin \/ user.userId = row.userId

\* mutant: Suspend rendered for the holder of the policy as well
canSuspendOwnRow(row) == isAdmin \/ user.userId = row.userId

\* const canSuspend = isAdmin
canSuspend(row) == isAdmin

\* const canReinstate = isAdmin
canReinstate(row) == isAdmin

PolicyAction == {"renew", "suspend", "reinstate"}

\* mutant: Renew rendered on the rows of ACTIVE policies only
policyActionOfferedWhileActive(row, next) ==
  CASE next = "renew" -> canRenew(row) /\ row.status = "ACTIVE"
    [] next = "suspend" -> canSuspend(row)
    [] next = "reinstate" -> canReinstate(row)
    [] OTHER -> FALSE

\* the row buttons that are rendered
policyActionOffered(row, next) ==
  CASE next = "renew" -> canRenew(row)
    [] next = "suspend" -> canSuspend(row)
    [] next = "reinstate" -> canReinstate(row)
    [] OTHER -> FALSE

\* isOpen of the modal of an action
policyModalOpen(a) ==
  IF a = "create" THEN policyAction = "create"
  ELSE policyAction = a /\ selectedPolicy # NoPolicy
anyPolicyModalOpen == \E a \in PolicyAction \cup {"create"} : policyModalOpen(a)

BlankRenewForm == [extendMonths |-> Undefined]
BlankSuspendForm == [reason |-> 0]
\* createForm before anything is typed; userId is prefilled with the
\* signed-in user's id and quoteId is optional: the two text fields pass
BlankCreateForm ==
  [age |-> Undefined, coverageAmount |-> Undefined, premium |-> Undefined,
   termMonths |-> Undefined]

PoliciesPageMounted == page = "policies"

\* the query keys that have an observer mounted
ActivePolicyKeys ==
  IF page = "policies" THEN {policiesQueryKey(user)}
  ELSE IF page = "dashboard" THEN {dashboardQueryKey(user)}
  ELSE {}

(* ------------------------------------------------------------------ *)
(* PoliciesPage: handlers                                               *)
(* ------------------------------------------------------------------ *)
\* the state closeModal of PoliciesPage leaves
closePolicyModalEffect ==
  /\ policyAction' = NoAction
  /\ selectedPolicy' = NoPolicy
  /\ renewForm' = BlankRenewForm
  /\ suspendForm' = BlankSuspendForm
  /\ createForm' = BlankCreateForm

\* Cancel, the modal's close button or Escape
closePolicyModal ==
  /\ PoliciesPageMounted
  /\ anyPolicyModalOpen
  /\ closePolicyModalEffect
  /\ UNCHANGED <<laterVars, evidenceVars, sessionVars, claimsVars, backendScoped, policiesDb, policyQueries, policyReqs>>

\* the New Policy button: setAction("create")
newPolicyClick ==
  /\ PoliciesPageMounted
  /\ ~anyPolicyModalOpen
  /\ policyAction' = "create"
  /\ UNCHANGED <<laterVars, evidenceVars, sessionVars, claimsVars, backendScoped, policiesDb, policyQueries,
                 selectedPolicy, renewForm, suspendForm, createForm, policyReqs>>

\* a row button: openAction(row, next) of PoliciesPage
openPolicyAction(row, next) ==
  /\ PoliciesPageMounted
  /\ ~anyPolicyModalOpen
  /\ policyActionOffered(row, next)
  /\ selectedPolicy' = row
  /\ policyAction' = next
  /\ renewForm' = IF next = "renew" THEN [extendMonths |-> Num(12)] ELSE renewForm
  /\ UNCHANGED <<laterVars, evidenceVars, sessionVars, claimsVars, backendScoped, policiesDb, policyQueries,
                 suspendForm, createForm, policyReqs>>

\* the months input of the renew form
extendMonthsInput(m) ==
  /\ PoliciesPageMounted
  /\ policyModalOpen("renew")
  /\ renewForm' = [extendMonths |-> m]
  /\ UNCHANGED <<laterVars, evidenceVars, sessionVars, claimsVars, backendScoped, policiesDb, policyQueries,
                 policyAction, selectedPolicy, suspendForm, createForm, policyReqs>>

\* the reason input of the suspend form
reasonInput(len) ==
  /\ PoliciesPageMounted
  /\ policyModalOpen("suspend")
  /\ suspendForm' = [reason |-> len]
  /\ UNCHANGED <<laterVars, evidenceVars, sessionVars, claimsVars, backendScoped, policiesDb, policyQueries,
                 policyAction, selectedPolicy, renewForm, createForm, policyReqs>>

\* Renew policy: renewForm.handleSubmit(values => selectedPolicy &&
\* renewMutation.mutate({policyId, extendMonths}))
renewSubmit ==
  /\ PoliciesPageMounted
  /\ policyModalOpen("renew")
  /\ ~policyPending("renew")
  /\ policyReqs = {}
  /\ renewSchema(renewForm)
  /\ policyReqs' = policyReqs \cup
       {PolicyReq("renew", selectedPolicy.policyId, renewForm.extendMonths, 0)}
  /\ UNCHANGED <<laterVars, evidenceVars, sessionVars, claimsVars, backendScoped, policiesDb, policyQueries,
                 policiesViewVars>>

\* Suspend: suspendForm.handleSubmit(values => selectedPolicy &&
\* suspendMutation.mutate({policyId, reason}))
suspendSubmit ==
  /\ PoliciesPageMounted
  /\ policyModalOpen("suspend")
  /\ ~policyPending("suspend")
  /\ policyReqs = {}
  /\ suspendSchema(suspendForm)
  /\ policyReqs' = policyReqs \cup
       {PolicyReq("suspend", selectedPolicy.policyId, Null, suspendForm.reason)}
  /\ UNCHANGED <<laterVars, evidenceVars, sessionVars, claimsVars, backendScoped, policiesDb, policyQueries,
                 policiesViewVars>>

\* Reinstate: selectedPolicy && reinstateMutation.mutate(selectedPolicy.policyId)
reinstateClick ==
  /\ PoliciesPageMounted
  /\ policyModalOpen("reinstate")
  /\ ~policyPending("reinstate")
  /\ policyReqs = {}
  /\ policyReqs' = policyReqs \cup {PolicyReq("reinstate", selectedPolicy.policyId, Null, 0)}
  /\ UNCHANGED <<laterVars, evidenceVars, sessionVars, claimsVars, backendScoped, policiesDb, policyQueries,
                 policiesViewVars>>

(* ------------------------------------------------------------------ *)
(* The collaborator answers a policy request, the callbacks run        *)
(* ------------------------------------------------------------------ *)
\* the collaborator carries the request out and answers 2xx
policyServerOk(r) ==
  /\ r \in policyReqs /\ r.phase = "sent"
  /\ ServerAcceptsPolicy(policiesDb, r)
  /\ policiesDb' = ServerApplyPolicy(policiesDb, r)
  /\ policyReqs' = (policyReqs \ {r}) \cup {[r EXCEPT !.phase = "ok"]}
  /\ UNCHANGED <<laterVars, evidenceVars, sessionVars, claimsVars, backendScoped, policyQueries, policiesViewVars>>

\* onSuccess of renewMutation, suspendMutation and reinstateMutation:
\* invalidateQueries, toast, closeModal
policyOnSuccess(r) ==
  /\ r \in policyReqs /\ r.phase = "ok"
  /\ policyQueries' = invalidatePolicies(policyQueries, ActivePolicyKeys, authToken)
  /\ closePolicyModalEffect
  /\ policyReqs' = policyReqs \ {r}
  /\ UNCHANGED <<laterVars, evidenceVars, sessionVars, claimsVars, backendScoped, policiesDb>>

\* the collaborator rejects the request or the network fails, and onError
\* of the mutation runs: a toast, nothing else
policyOnError(r) ==
  /\ r \in policyReqs /\ r.phase = "sent"
  /\ policyReqs' = policyReqs \ {r}
  /\ UNCHANGED <<laterVars, evidenceVars, sessionVars, claimsVars, backendScoped, policiesDb, policyQueries,
                 policiesViewVars>>

(* ------------------------------------------------------------------ *)
(* The policy lists are fetched                                        *)
(* ------------------------------------------------------------------ *)
\* GET /policies is answered for the holder of the token it was sent with:
\* the items are the data of the query, fresh again
fetchPoliciesSettled(k) ==
  /\ policyQueries[k].fetch = "sent"
  /\ policyQueries' =
       [policyQueries EXCEPT ![k] =
          [data |-> ServerListPolicies(policiesDb, policyQueries[k].by, backendScoped),
           stale |-> FALSE, fetch |-> "idle", by |-> NoUser]]
  /\ UNCHANGED <<laterVars, evidenceVars, sessionVars, claimsVars, backendScoped, policiesDb, policiesViewVars,
                 policyReqs>>

\* GET /policies is answered for the holder of the token it was sent with;
\* the answer is on its way
fetchPoliciesAnswered(k) ==
  /\ policyQueries[k].fetch = "sent"
  /\ policyReplies' =
       [policyReplies EXCEPT ![k] =
          ServerListPolicies(policiesDb, policyQueries[k].by, backendScoped)]
  /\ policyQueries' = [policyQueries EXCEPT ![k].fetch = "answered"]
  /\ UNCHANGED <<moreVars, createVars, evidenceVars, sessionVars, claimsVars, backendScoped, policiesDb,
                 policiesViewVars, policyReqs>>

\* the answer arrives: its items are the data of the query, fresh again
\* (the success action of the query clears isInvalidated)
fetchPoliciesDelivered(k) ==
  /\ policyQueries[k].fetch = "answered"
  /\ policyQueries' =
       [policyQueries EXCEPT ![k] =
          [data |-> policyReplies[k], stale |-> FALSE, fetch |-> "idle", by |-> NoUser]]
  /\ policyReplies' = [policyReplies EXCEPT ![k] = EmptyPolicies]
  /\ UNCHANGED <<moreVars, createVars, evidenceVars, sessionVars, claimsVars, backendScoped, policiesDb,
                 policiesViewVars, policyReqs>>

\* the fetch fails: the data stays what it was
fetchPoliciesFailed(k) ==
  /\ policyQueries[k].fetch = "sent"
  /\ policyQueries' = [policyQueries EXCEPT ![k].fetch = "idle", ![k].by = NoUser]
  /\ UNCHANGED <<laterVars, evidenceVars, sessionVars, claimsVars, backendScoped, policiesDb, policiesViewVars,
                 policyReqs>>

\* staleTime (60 s) passes since the data arrived
policiesStaleTimeElapsed(k) ==
  /\ ~policyQueries[k].stale
  /\ policyQueries' = [policyQueries EXCEPT ![k].stale = TRUE]
  /\ UNCHANGED <<laterVars, evidenceVars, sessionVars, claimsVars, backendScoped, policiesDb, policiesViewVars,
                 policyReqs>>

(* ------------------------------------------------------------------ *)
(* Policy creation: QuotesPage and the create form of PoliciesPage     *)
(* ------------------------------------------------------------------ *)
\* z.number() passed the NaN refinement
IsNumeric(x) == x.t \in {"number", "nonInteger"}
\* .int()
IsWhole(x) == x.t = "number"
\* .min(n) for a whole n; v of a number that is not whole is its floor
AtLeast(x, n) == IsNumeric(x) /\ x.v >= n
\* .positive()
Positive(x) == IsNumeric(x) /\ (x.v > 0 \/ (x.t = "nonInteger" /\ x.v >= 0))

\* what the number inputs of the quote form can hold
QuoteInputs(field) ==
  IF field = "coverageAmount" THEN {Num(50000), Num(0), NaN}
  ELSE {Num(12), NonInteger, Num(0)}
\* what the number inputs of the create form can hold
CreateInputs(field) ==
  CASE field = "age" -> {Num(30), NaN}
    [] field = "coverageAmount" -> {Num(50000), Num(999)}
    [] field = "termMonths" -> {Num(12), Num(11)}
\* the premium of a calculated quote
QuotePremiums == {Num(120), Num(0)}

\* defaultValues of the quote form
BlankQuoteForm == [age |-> Num(30), coverageAmount |-> Num(50000), termMonths |-> Num(12)]

\* quoteSchema
quoteSchema(values) ==
  /\ IsWhole(values.age) /\ AtLeast(values.age, 18) /\ values.age.v <= 100
  /\ Positive(values.coverageAmount)
  /\ IsWhole(values.termMonths) /\ Positive(values.termMonths)

\* createPolicySchema, the numeric fields
createPolicySchema(values) ==
  /\ IsWhole(values.age) /\ AtLeast(values.age, 18) /\ values.age.v <= 100
  /\ AtLeast(values.coverageAmount, 1000)
  /\ Positive(values.premium)
  /\ IsWhole(values.termMonths) /\ AtLeast(values.termMonths, 12) /\ values.termMonths.v <= 360

\* the condition of the effect that calculates the premium of the create form
premiumWanted(values) ==
  /\ AtLeast(values.age, 18) /\ values.age.v <= 100
  /\ AtLeast(values.coverageAmount, 1000)
  /\ AtLeast(values.termMonths, 12)

\* a request of quoteMutation or of a create-policy mutation in flight;
\* kind "quote" is QuotesPage.quoteMutation, "premium" is
\* PoliciesPage.quoteMutation, "quoteCreate" is
\* QuotesPage.createPolicyMutation and "formCreate" is
\* PoliciesPage.createMutation
CreateReq(kind, coverage, premium, term) ==
  [kind |-> kind, age |-> Null, coverageAmount |-> coverage, premium |-> premium,
   termMonths |-> term, phase |-> "sent"]
\* the body of POST /quotes/calculate: age and coverageAmount of the form
QuoteReq(kind, values) ==
  [CreateReq(kind, values.coverageAmount, Null, Null) EXCEPT !.age = values.age]
\* the form values a quote was calculated for
QuoteInputsOf(r) == [age |-> r.age, coverageAmount |-> r.coverageAmount]
NoQuoteInputs == [age |-> Null, coverageAmount |-> Null]
createPending(kind) == \E r \in createReqs : r.kind = kind

\* POST /policies adds an ACTIVE policy of the user while the store has room
FreePolicyIds(db) == {p \in PolicyIds : db[p].status = "NONE"}
ServerCreatePolicy(db, owner) ==
  LET id == CHOOSE p \in FreePolicyIds(db) : \A q \in FreePolicyIds(db) : p <= q
  IN [db EXCEPT ![id] = Policy(id, owner, "ACTIVE")]

QuotesPageMounted == page = "quotes"

\* the state of a QuotesPage that has just mounted
quotesViewReset ==
  /\ quoteForm' = BlankQuoteForm
  /\ quoteResult' = Null

\* typing into a number input of the quote form
quoteInput(field, v) ==
  /\ QuotesPageMounted
  /\ quoteForm' = [quoteForm EXCEPT ![field] = v]
  /\ UNCHANGED <<moreVars, evidenceVars, policyReplies, sessionVars, claimsVars, policiesVars, quoteResult, createReqs>>

\* Calculate premium: form.handleSubmit validates, then quoteMutation.mutate
calculateSubmit ==
  /\ QuotesPageMounted
  /\ ~createPending("quote")
  /\ quoteSchema(quoteForm)
  /\ createReqs' = createReqs \cup {QuoteReq("quote", quoteForm)}
  /\ UNCHANGED <<moreVars, evidenceVars, policyReplies, sessionVars, claimsVars, policiesVars, quoteForm, quoteResult>>

\* onSuccess of QuotesPage.quoteMutation: setQuoteResult(data)
quoteOnSuccess(r, p) ==
  /\ r \in createReqs /\ r.kind = "quote"
  /\ quoteResult' = p
  /\ quoteResultInputs' = QuoteInputsOf(r)
  /\ createReqs' = createReqs \ {r}
  /\ UNCHANGED <<filterVars, formatVars, pastQuotedVars, premiumInputs, evidenceVars, policyReplies, sessionVars, claimsVars, policiesVars, quoteForm>>

\* onError of either quoteMutation: a toast
quoteOnError(r) ==
  /\ r \in createReqs /\ r.kind \in {"quote", "premium"}
  /\ createReqs' = createReqs \ {r}
  /\ UNCHANGED <<moreVars, evidenceVars, policyReplies, sessionVars, claimsVars, policiesVars, quoteForm, quoteResult>>

\* Create policy for the user: canCreatePolicy && createPolicyMutation.mutate
\* with form.getValues of the quote form as it stands
createPolicyClick ==
  /\ QuotesPageMounted
  /\ quoteResult # Null /\ user # NoUser
  /\ ~createPending("quoteCreate")
  /\ createReqs' = createReqs \cup
       {CreateReq("quoteCreate", quoteForm.coverageAmount, quoteResult, quoteForm.termMonths)}
  /\ UNCHANGED <<moreVars, evidenceVars, policyReplies, sessionVars, claimsVars, policiesVars, quoteForm, quoteResult>>

\* typing into a number input of the create form, and the effect on age,
\* coverageAmount and termMonths: quoteMutation.mutate when they are in range
createInput(field, v) ==
  /\ PoliciesPageMounted
  /\ policyModalOpen("create")
  /\ createForm' = [createForm EXCEPT ![field] = v]
  /\ createReqs' =
       IF createForm[field] # v /\ premiumWanted(createForm')
         THEN createReqs \cup {QuoteReq("premium", createForm')}
         ELSE createReqs
  /\ UNCHANGED <<moreVars, evidenceVars, policyReplies, sessionVars, claimsVars, backendScoped, policiesDb, policyQueries,
                 policyAction, selectedPolicy, renewForm, suspendForm, policyReqs,
                 quoteForm, quoteResult>>

\* onSuccess of PoliciesPage.quoteMutation: createForm.setValue("premium", ...)
premiumOnSuccess(r, p) ==
  /\ r \in createReqs /\ r.kind = "premium"
  /\ createForm' = [createForm EXCEPT !.premium = p]
  /\ premiumInputs' = QuoteInputsOf(r)
  /\ createReqs' = createReqs \ {r}
  /\ UNCHANGED <<filterVars, formatVars, pastQuotedVars, quoteResultInputs, evidenceVars, policyReplies, sessionVars, claimsVars, backendScoped, policiesDb, policyQueries,
                 policyAction, selectedPolicy, renewForm, suspendForm, policyReqs,
                 quoteForm, quoteResult>>

\* Create: createForm.handleSubmit validates, then createMutation.mutate
createPolicySubmit ==
  /\ PoliciesPageMounted
  /\ policyModalOpen("create")
  /\ ~createPending("formCreate")
  /\ createPolicySchema(createForm)
  /\ createReqs' = createReqs \cup
       {CreateReq("formCreate", createForm.coverageAmount, createForm.premium,
                  createForm.termMonths)}
  /\ UNCHANGED <<moreVars, evidenceVars, policyReplies, sessionVars, claimsVars, policiesVars, quoteForm, quoteResult>>

\* the collaborator answers POST /policies with 2xx
createServerOk(r) ==
  /\ r \in createReqs /\ r.kind \in {"quoteCreate", "formCreate"} /\ r.phase = "sent"
  /\ FreePolicyIds(policiesDb) # {}
  /\ policiesDb' = ServerCreatePolicy(policiesDb, user.userId)
  /\ createReqs' = (createReqs \ {r}) \cup {[r EXCEPT !.phase = "ok"]}
  /\ UNCHANGED <<moreVars, evidenceVars, policyReplies, sessionVars, claimsVars, backendScoped, policyQueries,
                 policiesViewVars, policyReqs, quoteForm, quoteResult>>

\* onSuccess of createPolicyMutation (invalidateQueries, toast) and of
\* createMutation (invalidateQueries, toast, closeModal)
createOnSuccess(r) ==
  /\ r \in createReqs /\ r.phase = "ok"
  /\ policyQueries' = invalidatePolicies(policyQueries, ActivePolicyKeys, authToken)
  /\ IF r.kind = "formCreate" THEN closePolicyModalEffect ELSE UNCHANGED policiesViewVars
  /\ createReqs' = createReqs \ {r}
  /\ UNCHANGED <<moreVars, evidenceVars, policyReplies, sessionVars, claimsVars, backendScoped, policiesDb, policyReqs,
                 quoteForm, quoteResult>>

\* the collaborator rejects POST /policies or the network fails, and onError
\* of the mutation runs: a toast
createOnError(r) ==
  /\ r \in createReqs /\ r.kind \in {"quoteCreate", "formCreate"} /\ r.phase = "sent"
  /\ createReqs' = createReqs \ {r}
  /\ UNCHANGED <<moreVars, evidenceVars, policyReplies, sessionVars, claimsVars, policiesVars, quoteForm, quoteResult>>

(* ------------------------------------------------------------------ *)
(* ClaimsPage: uploads, document lists, policy lookups and downloads   *)
(* ------------------------------------------------------------------ *)
\* what a call can end with; a PUT that the storage collaborator answers
\* with a status outside 2xx is "rejected", a call whose promise rejects
\* is "failed"
Answer(result, returned, status, body) ==
  [result |-> result, returned |-> returned, status |-> status, body |-> body]
Answers(c) ==
  CASE c.op = "presign" ->
         {Answer("ok", t, 200, "") : t \in PresignTypes(c.declared)}
         \cup {Answer("failed", "", 0, "")}
    [] c.op = "put" ->
         {Answer("ok", "", 200, ""), Answer("failed", "", 0, "")}
         \cup {Answer("rejected", "", f.status, f.body) : f \in PutFailures}
    [] OTHER -> {Answer("ok", "", 200, ""), Answer("failed", "", 0, "")}

\* the file input of the upload modal changes: handleUpload(file) up to
\* its first await
fileChosen(type) ==
  /\ ClaimsPageMounted
  /\ modalOpen("upload")
  /\ Cardinality(calls) < MaxCalls
  /\ uploading' = TRUE
  /\ calls' = calls \cup {Call("presign", selectedClaim.claimId, type, "", "")}
  /\ UNCHANGED <<laterVars, loadingDocuments, documents, viewedPolicy, loadingPolicy, lastToast,
                 unhandled, sessionVars, policiesVars, claimsDb, claimsQuery, claimsViewVars, reqs>>

\* handleUpload after presignClaimUpload: the PUT is sent, or the catch
\* and finally blocks run
presignSettled(c, a) ==
  /\ c \in calls /\ c.op = "presign"
  /\ IF a.result = "ok"
       THEN /\ calls' = (calls \ {c}) \cup
                 {Call("put", c.claimId, c.declared, a.returned,
                       contentTypeSent(a.returned, c.declared))}
            /\ UNCHANGED <<uploading, lastToast>>
       ELSE /\ calls' = calls \ {c}
            /\ lastToast' = Toast("error", "Upload failed", 0, "")
            /\ uploading' = FALSE
  /\ UNCHANGED <<laterVars, loadingDocuments, documents, viewedPolicy, loadingPolicy, unhandled,
                 sessionVars, policiesVars, claimsDb, claimsQuery, claimsViewVars, reqs>>

\* mutant: response.ok is not examined
putSettledUnchecked(c, a) ==
  /\ c \in calls /\ c.op = "put"
  /\ IF a.result # "failed"
       THEN /\ lastToast' = Toast("success", "Document uploaded", 0, "")
            /\ loadingDocuments' = TRUE
            /\ calls' = (calls \ {c}) \cup {Call("list", c.claimId, "", "", "")}
            /\ UNCHANGED uploading
       ELSE /\ lastToast' = Toast("error", "Upload failed", a.status, a.body)
            /\ calls' = calls \ {c}
            /\ uploading' = FALSE
            /\ UNCHANGED loadingDocuments
  /\ UNCHANGED <<laterVars, documents, viewedPolicy, loadingPolicy, unhandled, sessionVars,
                 policiesVars, claimsDb, claimsQuery, claimsViewVars, reqs>>

\* handleUpload after the PUT: on response.ok the success toast and the
\* refetch of the documents; otherwise an Error with the status and the
\* text of the response is thrown to the catch and finally blocks
putSettled(c, a) ==
  /\ c \in calls /\ c.op = "put"
  /\ IF a.result = "ok"
       THEN /\ lastToast' = Toast("success", "Document uploaded", 0, "")
            /\ loadingDocuments' = TRUE
            /\ calls' = (calls \ {c}) \cup {Call("list", c.claimId, "", "", "")}
            /\ UNCHANGED uploading
       ELSE /\ lastToast' = Toast("error", "Upload failed", a.status, a.body)
            /\ calls' = calls \ {c}
            /\ uploading' = FALSE
            /\ UNCHANGED loadingDocuments
  /\ UNCHANGED <<laterVars, documents, viewedPolicy, loadingPolicy, unhandled, sessionVars,
                 policiesVars, claimsDb, claimsQuery, claimsViewVars, reqs>>

\* handleUpload after fetchClaimDocuments
listSettled(c, a, items) ==
  /\ c \in calls /\ c.op = "list"
  /\ calls' = calls \ {c}
  /\ loadingDocuments' = FALSE
  /\ uploading' = FALSE
  /\ IF a.result = "ok"
       THEN documents' = items /\ documentsOf' = c.claimId /\ UNCHANGED lastToast
       ELSE /\ lastToast' = Toast("error", "Upload failed", 0, "")
            /\ UNCHANGED <<documents, documentsOf>>
  /\ UNCHANGED <<createVars, policyReplies, filterVars, formatVars, quotedVars, claimsFetchedBy,
                 pastOriginVars, viewedPolicy, loadingPolicy, unhandled, sessionVars, policiesVars,
                 claimsDb, claimsQuery, claimsViewVars, reqs>>

\* openAction(claim, "documents"): then, catch and finally of
\* fetchClaimDocuments
documentsSettled(c, a, items) ==
  /\ c \in calls /\ c.op = "documents"
  /\ calls' = calls \ {c}
  /\ loadingDocuments' = FALSE
  /\ IF a.result = "ok"
       THEN documents' = items /\ documentsOf' = c.claimId /\ UNCHANGED lastToast
       ELSE /\ lastToast' = Toast("error", "Failed to load documents", 0, "")
            /\ UNCHANGED <<documents, documentsOf>>
  /\ UNCHANGED <<createVars, policyReplies, filterVars, formatVars, quotedVars, claimsFetchedBy,
                 pastOriginVars, uploading, viewedPolicy, loadingPolicy, unhandled, sessionVars,
                 policiesVars, claimsDb, claimsQuery, claimsViewVars, reqs>>

\* openAction(claim, "viewPolicy"): then, catch and finally of fetchPolicy
policySettled(c, a, p) ==
  /\ c \in calls /\ c.op = "policy"
  /\ calls' = calls \ {c}
  /\ loadingPolicy' = FALSE
  /\ IF a.result = "ok"
       THEN viewedPolicy' = policiesDb[p] /\ UNCHANGED <<lastToast, claimsAction>>
       ELSE /\ lastToast' = Toast("error", "Failed to load policy", 0, "")
            /\ claimsAction' = NoAction
            /\ UNCHANGED viewedPolicy
  /\ UNCHANGED <<laterVars, uploading, loadingDocuments, documents, unhandled, sessionVars,
                 policiesVars, claimsDb, claimsQuery, selectedClaim, adjudicateForm,
                 newClaimForm, reqs>>

\* a document of the documents modal is clicked: presignDownload(doc.key)
downloadClick(key) ==
  /\ ClaimsPageMounted
  /\ modalOpen("documents")
  /\ ~loadingDocuments /\ key \in documents
  /\ Cardinality(calls) < MaxCalls
  /\ calls' = calls \cup {Call("download", selectedClaim.claimId, "", "", "")}
  /\ UNCHANGED <<laterVars, evidenceViewVars, lastToast, unhandled, sessionVars, policiesVars,
                 claimsDb, claimsQuery, claimsViewVars, reqs>>

\* the onClick of the document after its await: window.open(url), or the
\* rejection leaves the async handler, which has no catch
downloadSettled(c, a) ==
  /\ c \in calls /\ c.op = "download"
  /\ calls' = calls \ {c}
  /\ unhandled' = (unhandled \/ a.result = "failed")
  /\ UNCHANGED <<laterVars, evidenceViewVars, lastToast, sessionVars, policiesVars,
                 claimsDb, claimsQuery, claimsViewVars, reqs>>

(* ------------------------------------------------------------------ *)
(* utils/format.ts                                                     *)
(* ------------------------------------------------------------------ *)
\* the numbers formatted: every count up to MaxFormatted, multiples that
\* reach nine digits, and the number of the repository's test
MaxFormatted == 12000
FormatValues ==
  (0..MaxFormatted) \cup {n * 90907 : n \in 0..MaxFormatted}
    \cup {999999, 1000000, 9876543, 2147483647}

DigitChars == <<"0", "1", "2", "3", "4", "5", "6", "7", "8", "9">>

\* the decimal digits of a non-negative integer, most significant first
RECURSIVE Digits(_)
Digits(n) == IF n < 10 THEN <<DigitChars[n + 1]>> ELSE Digits(n \div 10) \o <<DigitChars[(n % 10) + 1]>>

\* grouping of the integer digits by threes from the right, the separator
\* of the locale (a comma) between the groups, from four digits on
RECURSIVE Grouped(_)
Grouped(ds) ==
  IF Len(ds) <= 3 THEN ds
  ELSE Grouped(SubSeq(ds, 1, Len(ds) - 3)) \o <<",">> \o SubSeq(ds, Len(ds) - 2, Len(ds))

\* mutant: a locale whose minimum grouping digits is 2 (1000 is not grouped)
numberFormatterMinTwo(value) ==
  IF Len(Digits(value)) <= 4 THEN Digits(value) ELSE Grouped(Digits(value))

\* new Intl.NumberFormat('en-IE').format(value) for a non-negative integer
numberFormatter(value) == Grouped(Digits(value))

\* formatNumber(value) of a value that has not been rendered yet
formatNumber ==
  /\ formatted = <<>>
  /\ formatted' = numberFormatter(formatValue)
  /\ UNCHANGED <<formatValue, pastFormatVars, createVars, policyReplies, filterVars, evidenceVars, sessionVars,
                 claimsVars, policiesVars>>

(* ------------------------------------------------------------------ *)
(* Status filters of the claims and the policies list                  *)
(* ------------------------------------------------------------------ *)
\* the options of the status select of ClaimsPage and of PoliciesPage
ClaimFilterOptions == {"ALL", "DRAFT", "SUBMITTED", "APPROVED", "DENIED"}
PolicyFilterOptions == {"ALL", "ACTIVE", "SUSPENDED", "EXPIRED"}

\* queryFn: fetchClaims() / fetchPolicies() without params for ALL, with
\* { status } otherwise; "" is a request without the status parameter
statusParam(filter) == IF filter = "ALL" THEN "" ELSE filter

\* GET /claims or GET /policies as the query of the key sends it
ListCall(view, filter) == [view |-> view, key |-> filter, status |-> statusParam(filter)]

\* the status select of ClaimsPage changes: the query of the new key is
\* observed and fetched, unless the cache holds fresh data of an earlier
\* fetch of that key
claimsFilterChange(f, fresh) ==
  /\ ClaimsPageMounted
  /\ ~anyModalOpen
  /\ f \in ClaimFilterOptions /\ f # claimsStatusFilter
  /\ fresh => (f = "ALL" \/ ListCall("claims", f) \in listCalls)
  /\ claimsStatusFilter' = f
  /\ listCalls' = IF fresh THEN listCalls ELSE listCalls \cup {ListCall("claims", f)}
  /\ UNCHANGED <<createVars, policyReplies, policiesStatusFilter, restVars, evidenceVars,
                 sessionVars, claimsVars, policiesVars>>

\* the status select of PoliciesPage changes
policiesFilterChange(f, fresh) ==
  /\ PoliciesPageMounted
  /\ ~anyPolicyModalOpen
  /\ f \in PolicyFilterOptions /\ f # policiesStatusFilter
  /\ fresh => (f = "ALL" \/ ListCall("policies", f) \in listCalls)
  /\ policiesStatusFilter' = f
  /\ listCalls' = IF fresh THEN listCalls ELSE listCalls \cup {ListCall("policies", f)}
  /\ UNCHANGED <<createVars, policyReplies, claimsStatusFilter, restVars, evidenceVars,
                 sessionVars, claimsVars, policiesVars>>

(* ------------------------------------------------------------------ *)
(* Session and routing                                                  *)
(* ------------------------------------------------------------------ *)
\* the state of a ClaimsPage that has just mounted
claimsViewReset ==
  /\ claimsAction' = NoAction
  /\ selectedClaim' = NoClaim
  /\ newClaimForm' = BlankNewClaimForm
  /\ adjudicateForm' = BlankAdjudicateForm
  /\ uploading' = FALSE
  /\ loadingDocuments' = FALSE
  /\ documents' = {}
  /\ viewedPolicy' = NoPolicy
  /\ loadingPolicy' = FALSE

\* useState("ALL") of the two list views: a page that mounts starts
\* without a filter
filtersReset ==
  /\ claimsStatusFilter' = "ALL"
  /\ policiesStatusFilter' = "ALL"

\* the state of a PoliciesPage that has just mounted
policiesViewReset ==
  /\ policyAction' = NoAction
  /\ selectedPolicy' = NoPolicy
  /\ renewForm' = BlankRenewForm
  /\ suspendForm' = BlankSuspendForm
  /\ createForm' = BlankCreateForm

\* the claims of a decoded token; a claim that is missing is "", exp is
\* "none" (no exp claim), "past" or "future" (against Date.now())
Token(jwt, exp) == [claims |-> jwt, exp |-> exp]
Expiries == {"none", "past", "future"}
ClaimlessTokens ==
  LET u == CHOOSE a \in AuthUsers : a.role = "USER"
  IN {Token([u EXCEPT !.username = ""], "future"),
      Token([u EXCEPT !.role = ""], "future"),
      Token([u EXCEPT !.userId = ""], "future")}
Tokens == {Token(u, e) : u \in AuthUsers, e \in Expiries} \cup ClaimlessTokens

\* parseToken: null (NoUser) unless sub, role and userId are all there
parseToken(tok) ==
  IF tok.claims.role = "" \/ tok.claims.username = "" \/ tok.claims.userId = ""
    THEN NoUser
    ELSE tok.claims

Expired(tok) == tok.exp = "past"

\* readStoredAuth: the stored token and its user, or nulls when nothing is
\* stored, the token lacks a claim or its exp is behind Date.now()
readStoredAuth(raw) ==
  IF raw = Null \/ parseToken(raw) = NoUser \/ Expired(raw)
    THEN [token |-> Null, user |-> NoUser]
    ELSE [token |-> raw, user |-> parseToken(raw)]

isAuthenticated == token # Null /\ user # NoUser

\* AuthContext.login after the response: the token and the user parsed
\* from it are the session, and the effect hands the token to the api
\* client and to the storage
loginResolved(tok) ==
  /\ page = "login" /\ user = NoUser
  /\ parseToken(tok) # NoUser
  /\ token' = tok
  /\ user' = parseToken(tok)
  /\ authToken' = parseToken(tok)
  /\ storage' = tok

\* a login that answers a token of u that has not expired
loginEffect(u) == loginResolved(Token(u, "future"))

\* login, and the Claims link is followed
login(u) ==
  /\ loginEffect(u)
  /\ page' = "claims"
  /\ claimsQuery' = MountQuery(claimsQuery)
  /\ claimsViewReset
  /\ UNCHANGED <<laterVars, calls, lastToast, unhandled, claimsDb, reqs, policiesVars>>

\* login, and the Policies link is followed
loginToPolicies(u) ==
  /\ loginEffect(u)
  /\ page' = "policies"
  /\ policyQueries' =
       [policyQueries EXCEPT ![policiesQueryKey(u)] = MountPolicyQuery(@, u)]
  /\ UNCHANGED <<laterVars, evidenceVars, claimsVars, backendScoped, policiesDb, policiesViewVars, policyReqs>>

\* login, and navigate("/") shows the dashboard
loginToDashboard(u) ==
  /\ loginEffect(u)
  /\ page' = "dashboard"
  /\ policyQueries' =
       [policyQueries EXCEPT ![dashboardQueryKey(u)] = MountPolicyQuery(@, u)]
  /\ UNCHANGED <<laterVars, evidenceVars, claimsVars, backendScoped, policiesDb, policiesViewVars, policyReqs>>

\* login, and the Quotes link is followed
loginToQuotes(u) ==
  /\ loginEffect(u)
  /\ page' = "quotes"
  /\ quotesViewReset
  /\ UNCHANGED <<moreVars, evidenceVars, policyReplies, claimsVars, policiesVars, createReqs>>

\* a link of the side bar is followed while no mutation request is in
\* flight: the page shown unmounts, the other one mounts
navigate(to) ==
  /\ page \in {"dashboard", "policies"} /\ to # page
  /\ policyReqs = {}
  /\ page' = to
  /\ policyQueries' =
       LET k == IF to = "policies" THEN policiesQueryKey(user) ELSE dashboardQueryKey(user)
       IN [policyQueries EXCEPT ![k] = MountPolicyQuery(@, authToken)]
  /\ policiesViewReset
  /\ filtersReset
  /\ UNCHANGED <<createVars, policyReplies, listCalls, restVars, evidenceVars, user, authToken,
                 token, storage, claimsVars, backendScoped, policiesDb, policyReqs>>

\* mutant: the api client keeps its token
logoutKeepingBearer ==
  /\ token' = Null
  /\ user' = NoUser
  /\ storage' = Null
  /\ UNCHANGED authToken

\* AuthContext.logout and the effect that follows it
logoutEffect ==
  /\ token' = Null
  /\ user' = NoUser
  /\ authToken' = NoUser
  /\ storage' = Null

\* Login.onSubmit up to its await: POST /auth/login leaves through the
\* request interceptor
loginSubmit ==
  /\ page = "login"
  /\ \A c \in calls : c.op # "login"
  /\ calls' = calls \cup {Call("login", 0, "", "", authToken.username)}
  /\ UNCHANGED <<laterVars, evidenceViewVars, lastToast, unhandled, sessionVars, claimsVars,
                 policiesVars>>

\* Login.onSubmit after login(): the session of the token answered, the
\* toast and navigate("/"), from where the Quotes link is followed; or
\* the catch, when the request failed (tok is Null) or parseToken
\* returned null
loginSettled(c, tok) ==
  /\ c \in calls /\ c.op = "login"
  /\ calls' = calls \ {c}
  /\ IF tok # Null /\ parseToken(tok) # NoUser
       THEN /\ loginResolved(tok)
            /\ page' = "quotes"
            /\ quotesViewReset
            /\ lastToast' = Toast("success", "Welcome back", 0, "")
       ELSE /\ lastToast' = Toast("error", "Login failed", 0, "")
            /\ UNCHANGED <<sessionVars, quoteForm, quoteResult>>
  /\ UNCHANGED <<moreVars, evidenceViewVars, unhandled, policyReplies, createReqs, claimsVars,
                 policiesVars>>

\* the document is loaded again: AuthProvider mounts with what
\* readStoredAuth returns, its effect runs, and every view and the query
\* cache start over
reload ==
  /\ reqs = {} /\ policyReqs = {} /\ createReqs = {}
  /\ LET s == readStoredAuth(storage)
     IN /\ token' = s.token
        /\ user' = s.user
        /\ authToken' = s.user
        /\ storage' = s.token
        /\ page' = IF s.user # NoUser THEN "quotes" ELSE "login"
  /\ claimsViewReset
  /\ policiesViewReset
  /\ quotesViewReset
  /\ claimsQuery' = IdleQuery
  /\ policyQueries' = [k \in PolicyQueryKeys |-> IdlePolicyQuery]
  /\ policyReplies' = [k \in PolicyQueryKeys |-> EmptyPolicies]
  /\ calls' = {}
  /\ lastToast' = NoToast
  /\ filtersReset
  /\ premiumInputs' = NoQuoteInputs
  /\ quoteResultInputs' = NoQuoteInputs
  /\ documentsOf' = 0
  /\ claimsFetchedBy' = NoUser
  /\ flush' = <<>>
  /\ outbox' = {}
  /\ toasts' = <<>>
  /\ timers' = {}
  /\ UNCHANGED <<listCalls, formatVars, nextToastId, unhandled, createReqs, claimsDb, reqs,
                 backendScoped, policiesDb, policyReqs>>

\* DashboardLayout.onLogout: logout() and navigate("/login"); the page
\* unmounts.  Sign-out is followed while no mutation request is in flight.
logout ==
  /\ user # NoUser
  /\ reqs = {} /\ policyReqs = {} /\ createReqs = {} /\ calls = {}
  /\ logoutEffect
  /\ page' = "login"
  /\ claimsViewReset
  /\ policiesViewReset
  /\ quotesViewReset
  /\ filtersReset
  /\ UNCHANGED <<listCalls, restVars, calls, lastToast, unhandled, policyReplies, createReqs,
                 claimsDb, claimsQuery, reqs, backendScoped, policiesDb, policyQueries,
                 policyReqs>>

(* ------------------------------------------------------------------ *)
(* The commit of a session, effect by effect, and the requests of the  *)
(* views through the request interceptor                               *)
(* ------------------------------------------------------------------ *)
\* the holder of the token of AuthContext, NoUser without a token
contextBearer == IF token = Null THEN NoUser ELSE parseToken(token)

\* a request of a view: via is "mount" for the request of a query that an
\* effect of a mounting view starts and "later" for any other; bearer is
\* the holder of the token in its Authorization header (NoUser: none) and
\* context the holder of the token of AuthContext when the interceptor ran
ApiRequest(op, via) ==
  [op |-> op, via |-> via, intercepted |-> FALSE, bearer |-> NoUser, context |-> NoUser]

\* the request interceptor: Authorization is Bearer authToken, if there is
\* one
requestInterceptor(r) ==
  [r EXCEPT !.intercepted = TRUE, !.bearer = authToken, !.context = contextBearer]

\* mutant: the interceptor runs inside the call that makes the request
dispatchSynchronous(r) == requestInterceptor(r)

\* apiClient.get and apiClient.post: the interceptor was registered without
\* the synchronous option, so it runs in a microtask after the code that
\* made the request
dispatch(r) == r

\* the passive effects of a commit of AuthProvider and the views under it,
\* children before parents: the queries of a view that mounts, then the
\* effect of AuthProvider
EffectsOf(mounting) == IF mounting THEN <<"view", "auth">> ELSE <<"auth">>

\* the queries that DashboardPage starts when it mounts
MountRequests == {ApiRequest(op, "mount") : op \in {"policies", "claims"}}
pendingInterceptor == \E r \in outbox : ~r.intercepted

\* Login.onSubmit after login(): setTokenState, setUser and navigate("/")
\* are committed together, the effects of the commit have yet to run
loginCommit(tok) ==
  /\ page = "login" /\ user = NoUser
  /\ flush = <<>> /\ ~pendingInterceptor
  /\ parseToken(tok) # NoUser
  /\ token' = tok
  /\ user' = parseToken(tok)
  /\ page' = "dashboard"
  /\ flush' = EffectsOf(TRUE)
  /\ UNCHANGED <<authToken, storage, outbox, createVars, policyReplies, filterVars, formatVars,
                 quotedVars, originVars, toastVars, evidenceVars, claimsVars, policiesVars>>

\* the effect of a view that has mounted: its queries are fetched
viewEffect ==
  /\ flush # <<>> /\ Head(flush) = "view"
  /\ flush' = Tail(flush)
  /\ outbox' = outbox \cup {dispatch(r) : r \in MountRequests}
  /\ UNCHANGED <<createVars, policyReplies, filterVars, formatVars, quotedVars, originVars,
                 toastVars, evidenceVars, sessionVars, claimsVars, policiesVars>>

\* the effect of AuthProvider on [token, user]
authEffect ==
  /\ flush # <<>> /\ Head(flush) = "auth"
  /\ flush' = Tail(flush)
  /\ authToken' = contextBearer
  /\ storage' = IF token # Null /\ user # NoUser THEN token ELSE Null
  /\ UNCHANGED <<outbox, user, page, token, createVars, policyReplies, filterVars, formatVars,
                 quotedVars, originVars, toastVars, evidenceVars, claimsVars, policiesVars>>

\* a microtask, once the effects have run: the interceptor of a request
interceptorRuns(r) ==
  /\ flush = <<>>
  /\ r \in outbox /\ ~r.intercepted
  /\ outbox' = (outbox \ {r}) \cup {requestInterceptor(r)}
  /\ UNCHANGED <<flush, createVars, policyReplies, filterVars, formatVars, quotedVars,
                 originVars, toastVars, evidenceVars, sessionVars, claimsVars, policiesVars>>

\* a request is answered
responseArrives(r) ==
  /\ r \in outbox /\ r.intercepted
  /\ flush = <<>> /\ ~pendingInterceptor
  /\ outbox' = outbox \ {r}
  /\ UNCHANGED <<flush, createVars, policyReplies, filterVars, formatVars, quotedVars,
                 originVars, toastVars, evidenceVars, sessionVars, claimsVars, policiesVars>>

\* a mounted view makes a request from an event handler or a refetch
viewRequest(op) ==
  /\ isAuthenticated /\ page # "login"
  /\ flush = <<>> /\ ~pendingInterceptor
  /\ outbox' = outbox \cup {dispatch(ApiRequest(op, "later"))}
  /\ UNCHANGED <<flush, createVars, policyReplies, filterVars, formatVars, quotedVars,
                 originVars, toastVars, evidenceVars, sessionVars, claimsVars, policiesVars>>

(* ------------------------------------------------------------------ *)
(* ToastContext: the toast list                                        *)
(* ------------------------------------------------------------------ *)
\* toasts shown in a page lifetime
MaxToasts == 3
ToastIds == 1..MaxToasts

\* duration: 4000 of toastWithId, and the fallback of timeout
DefaultDuration == 4000

\* the duration a caller of showToast passes, Undefined for none
ToastDurations == {Undefined, Num(1500), Num(0), Num(0 - 1)}

\* { id, variant: "info", duration: 4000, ...toast } and
\* toastWithId.duration ?? 4000
durationOf(d) == IF d = Undefined THEN DefaultDuration ELSE d.v
ToastItem(id, d) == [id |-> id, duration |-> durationOf(d)]

\* mutant: the oldest toast is removed
dismissOldest(list, id) == IF list = <<>> THEN list ELSE Tail(list)

\* dismissToast: prev.filter((toast) => toast.id !== id)
dismissToast(list, id) == SelectSeq(list, LAMBDA t : t.id # id)

\* showToast: the toast is appended under a new id, and a timeout that
\* dismisses it is set if its duration is above 0
showToast(d) ==
  /\ nextToastId < MaxToasts
  /\ nextToastId' = nextToastId + 1
  /\ toasts' = Append(toasts, ToastItem(nextToastId', d))
  /\ timers' = IF durationOf(d) > 0 THEN timers \cup {nextToastId'} ELSE timers
  /\ UNCHANGED <<createVars, policyReplies, filterVars, formatVars, quotedVars, originVars,
                 headerVars, evidenceVars, sessionVars, claimsVars, policiesVars>>

\* the timeout of a toast elapses: dismissToast(id)
timerFires(id) ==
  /\ id \in timers
  /\ timers' = timers \ {id}
  /\ toasts' = dismissToast(toasts, id)
  /\ UNCHANGED <<nextToastId, createVars, policyReplies, filterVars, formatVars, quotedVars,
                 originVars, headerVars, evidenceVars, sessionVars, claimsVars, policiesVars>>

\* the dismiss button of a toast on display: dismissToast(toast.id); the
\* timeout of the toast is left to elapse
dismissClick(id) ==
  /\ \E k \in DOMAIN toasts : toasts[k].id = id
  /\ toasts' = dismissToast(toasts, id)
  /\ UNCHANGED <<timers, nextToastId, createVars, policyReplies, filterVars, formatVars,
                 quotedVars, originVars, headerVars, evidenceVars, sessionVars, claimsVars,
                 policiesVars>>

(* ------------------------------------------------------------------ *)
(* Specification of the claims view                                    *)
(* ------------------------------------------------------------------ *)
InitSession ==
  /\ user = NoUser
  /\ authToken = NoUser
  /\ token = Null
  /\ storage = Null
  /\ page = "login"

\* the views' state that the later specifications add
InitMore ==
  /\ claimsFetchedBy = NoUser
  /\ outbox = {}
  /\ toasts = <<>>
  /\ timers = {}
  /\ nextToastId = 0
  /\ documentsOf = 0
  /\ premiumInputs = NoQuoteInputs
  /\ quoteResultInputs = NoQuoteInputs
  /\ claimsStatusFilter = "ALL"
  /\ policiesStatusFilter = "ALL"
  /\ listCalls = {}

\* the pages, their forms and the caches before anything has happened
InitPages ==
  /\ claimsQuery = IdleQuery
  /\ claimsAction = NoAction
  /\ selectedClaim = NoClaim
  /\ adjudicateForm = BlankAdjudicateForm
  /\ newClaimForm = BlankNewClaimForm
  /\ reqs = {}
  /\ policyQueries = [k \in PolicyQueryKeys |-> IdlePolicyQuery]
  /\ policyAction = NoAction
  /\ selectedPolicy = NoPolicy
  /\ renewForm = BlankRenewForm
  /\ suspendForm = BlankSuspendForm
  /\ createForm = BlankCreateForm
  /\ policyReqs = {}
  /\ quoteForm = BlankQuoteForm
  /\ quoteResult = Null
  /\ createReqs = {}
  /\ policyReplies = [k \in PolicyQueryKeys |-> EmptyPolicies]
  /\ uploading = FALSE
  /\ loadingDocuments = FALSE
  /\ documents = {}
  /\ viewedPolicy = NoPolicy
  /\ loadingPolicy = FALSE
  /\ calls = {}
  /\ lastToast = NoToast
  /\ unhandled = FALSE
  /\ InitMore

InitViews ==
  /\ InitPages
  /\ flush = <<>>
  /\ formatValue = 0
  /\ formatted = <<"0">>

Init ==
  /\ InitSession
  /\ InitViews
  /\ claimsDb \in InitialClaimStores
  /\ backendScoped = TRUE
  /\ policiesDb = [p \in PolicyIds |-> Policy(p, "u1", "ACTIVE")]

Next ==
  \/ \E u \in AuthUsers : login(u)
  \/ logout
  \/ closeModal
  \/ newClaimClick
  \/ \E row \in Rows, next \in {"upload", "submit", "adjudicate"} : openAction(row, next)
  \/ \E f \in {"policyId", "description"} : \E n \in TextLengths(f) : newClaimInput(f, n)
  \/ \E d \in {"APPROVED", "DENIED"} : decisionInput(d)
  \/ \E p \in PayoutInputs : payoutInput(p)
  \/ createSubmit
  \/ submitClick
  \/ adjudicateSubmit
  \/ \E r \in reqs : serverOk(r)
  \/ \E r \in reqs : onSuccess(r)
  \/ \E r \in reqs : onError(r)
  \/ fetchClaimsSettled
  \/ fetchClaimsFailed
  \/ staleTimeElapsed

Spec == Init /\ [][Next]_vars

(* ------------------------------------------------------------------ *)
(* Specification of the claims view over claims that start as drafts   *)
(* ------------------------------------------------------------------ *)
InitDrafts ==
  /\ Init
  /\ \A c \in ClaimIds : claimsDb[c].status \in {"DRAFT", "NONE"}

SpecDrafts == InitDrafts /\ [][Next]_vars

(* ------------------------------------------------------------------ *)
(* Specification of the policies view                                  *)
(* ------------------------------------------------------------------ *)
\* the user waits for the answer to a request before sending the next one
InitPolicies ==
  /\ InitSession
  /\ InitViews
  /\ claimsDb = EmptyClaims
  /\ backendScoped \in BOOLEAN
  /\ policiesDb \in InitialPolicyStores

NextPolicies ==
  \/ \E u \in AuthUsers : loginToPolicies(u)
  \/ logout
  \/ closePolicyModal
  \/ newPolicyClick
  \/ \E row \in PolicyRows, next \in PolicyAction : openPolicyAction(row, next)
  \/ \E m \in RenewInputs : extendMonthsInput(m)
  \/ \E n \in ReasonLengths : reasonInput(n)
  \/ renewSubmit
  \/ suspendSubmit
  \/ reinstateClick
  \/ \E r \in policyReqs : policyServerOk(r)
  \/ \E r \in policyReqs : policyOnSuccess(r)
  \/ \E r \in policyReqs : policyOnError(r)
  \/ \E k \in PolicyQueryKeys : fetchPoliciesSettled(k)
  \/ \E k \in PolicyQueryKeys : fetchPoliciesFailed(k)
  \/ \E k \in PolicyQueryKeys : policiesStaleTimeElapsed(k)

SpecPolicies == InitPolicies /\ [][NextPolicies]_vars

(* ------------------------------------------------------------------ *)
(* Specification of the policy lists of the dashboard and the          *)
(* policies view, over the sessions of the two users                   *)
(* ------------------------------------------------------------------ *)
InitLists ==
  /\ InitSession
  /\ InitViews
  /\ claimsDb = EmptyClaims
  /\ backendScoped = TRUE
  /\ policiesDb \in InitialPolicyStores

NextLists ==
  \/ \E u \in AuthUsers : loginToDashboard(u)
  \/ \E to \in {"dashboard", "policies"} : navigate(to)
  \/ logout
  \/ \E k \in PolicyQueryKeys : fetchPoliciesSettled(k)
  \/ \E k \in PolicyQueryKeys : fetchPoliciesFailed(k)
  \/ \E k \in PolicyQueryKeys : policiesStaleTimeElapsed(k)

SpecLists == InitLists /\ [][NextLists]_vars

(* ------------------------------------------------------------------ *)
(* Specification of policy creation                                    *)
(* ------------------------------------------------------------------ *)
InitCreate ==
  /\ InitSession
  /\ InitViews
  /\ claimsDb = EmptyClaims
  /\ backendScoped = TRUE
  /\ policiesDb = EmptyPolicies

NextCreate ==
  \/ \E u \in AuthUsers : loginToQuotes(u)
  \/ \E u \in AuthUsers : loginToPolicies(u)
  \/ logout
  \/ \E f \in {"coverageAmount", "termMonths"} : \E v \in QuoteInputs(f) : quoteInput(f, v)
  \/ calculateSubmit
  \/ \E r \in createReqs, p \in QuotePremiums : quoteOnSuccess(r, p)
  \/ \E r \in createReqs : quoteOnError(r)
  \/ createPolicyClick
  \/ newPolicyClick
  \/ closePolicyModal
  \/ \E f \in {"age", "coverageAmount", "termMonths"} : \E v \in CreateInputs(f) : createInput(f, v)
  \/ \E r \in createReqs, p \in QuotePremiums : premiumOnSuccess(r, p)
  \/ createPolicySubmit
  \/ \E r \in createReqs : createServerOk(r)
  \/ \E r \in createReqs : createOnSuccess(r)
  \/ \E r \in createReqs : createOnError(r)
  \/ \E k \in PolicyQueryKeys : fetchPoliciesSettled(k)
  \/ \E k \in PolicyQueryKeys : fetchPoliciesFailed(k)

SpecCreate == InitCreate /\ [][NextCreate]_vars

(* ------------------------------------------------------------------ *)
(* Specification of the claims list in the query cache over the        *)
(* sessions of the two users; a session ends with no list request in   *)
(* flight, so that a response is stored in the session of its request  *)
(* ------------------------------------------------------------------ *)
NextCache ==
  \/ \E u \in AuthUsers : login(u)
  \/ (claimsQuery.fetch = "idle" /\ logout)
  \/ newClaimClick
  \/ closeModal
  \/ \E f \in {"policyId", "description"} : \E n \in TextLengths(f) : newClaimInput(f, n)
  \/ createSubmit
  \/ \E r \in reqs : serverOk(r)
  \/ \E r \in reqs : onSuccess(r)
  \/ \E r \in reqs : onError(r)
  \/ fetchClaimsSettledFor
  \/ fetchClaimsFailed
  \/ staleTimeElapsed

SpecCache == Init /\ [][NextCache]_vars

(* ------------------------------------------------------------------ *)
(* Specification of the Authorization header: the document is loaded   *)
(* with whatever the storage holds and its first commit is about to    *)
(* run its effects; then requests, logouts and logins                  *)
(* ------------------------------------------------------------------ *)
InitLoaded ==
  /\ \E raw \in Tokens \cup {Null} :
       LET s == readStoredAuth(raw)
       IN /\ token = s.token
          /\ user = s.user
          /\ authToken = NoUser
          /\ storage = s.token
          /\ page = IF s.user # NoUser THEN "dashboard" ELSE "login"
          /\ flush = EffectsOf(s.user # NoUser)
  /\ InitPages
  /\ formatValue = 0
  /\ formatted = <<"0">>
  /\ claimsDb = EmptyClaims
  /\ backendScoped = TRUE
  /\ policiesDb = EmptyPolicies

NextHeader ==
  \/ \E tok \in Tokens : loginCommit(tok)
  \/ viewEffect
  \/ authEffect
  \/ \E r \in outbox : interceptorRuns(r)
  \/ \E r \in outbox : responseArrives(r)
  \/ \E op \in {"policies", "claims"} : viewRequest(op)
  \/ (flush = <<>> /\ ~pendingInterceptor /\ logout)

SpecHeader == InitLoaded /\ [][NextHeader]_vars

(* ------------------------------------------------------------------ *)
(* Specification of the toast list; in the second one a timeout that   *)
(* has been set does elapse                                            *)
(* ------------------------------------------------------------------ *)
InitToasts ==
  /\ InitSession
  /\ InitViews
  /\ claimsDb = EmptyClaims
  /\ backendScoped = TRUE
  /\ policiesDb = EmptyPolicies

NextToasts ==
  \/ \E d \in ToastDurations : showToast(d)
  \/ \E id \in ToastIds : timerFires(id)
  \/ \E id \in ToastIds : dismissClick(id)

SpecToasts == InitToasts /\ [][NextToasts]_vars

SpecToastsLive == SpecToasts /\ \A id \in ToastIds : WF_vars(timerFires(id))

(* ------------------------------------------------------------------ *)
(* Specification of the quotes behind the two ways of creating a       *)
(* policy, with form values that all pass the validation               *)
(* ------------------------------------------------------------------ *)
\* values of the number inputs that the premium effect and both schemas
\* accept
QuotableInputs(field) ==
  CASE field = "age" -> {Num(30)}
    [] field = "coverageAmount" -> {Num(50000), Num(60000)}
    [] field = "termMonths" -> {Num(12)}

NextQuote ==
  \/ \E u \in {a \in AuthUsers : a.role = "ADMIN"} : loginToQuotes(u)
  \/ \E u \in {a \in AuthUsers : a.role = "ADMIN"} : loginToPolicies(u)
  \/ logout
  \/ \E v \in QuotableInputs("coverageAmount") : quoteInput("coverageAmount", v)
  \/ calculateSubmit
  \/ \E r \in createReqs, p \in QuotePremiums : quoteOnSuccess(r, p)
  \/ \E r \in createReqs : quoteOnError(r)
  \/ createPolicyClick
  \/ newPolicyClick
  \/ closePolicyModal
  \/ \E f \in {"age", "coverageAmount", "termMonths"} :
       \E v \in QuotableInputs(f) : createInput(f, v)
  \/ \E r \in createReqs, p \in QuotePremiums : premiumOnSuccess(r, p)
  \/ createPolicySubmit
  \/ \E r \in createReqs : createServerOk(r)
  \/ \E r \in createReqs : createOnSuccess(r)
  \/ \E r \in createReqs : createOnError(r)
  \/ \E k \in PolicyQueryKeys : fetchPoliciesSettled(k)

SpecQuote == InitCreate /\ [][NextQuote]_vars

(* ------------------------------------------------------------------ *)
(* Specification of the documents, uploads and policy lookups of the   *)
(* claims view                                                         *)
(* ------------------------------------------------------------------ *)
InitEvidence ==
  /\ InitSession
  /\ InitViews
  /\ claimsDb = [c \in ClaimIds |-> Claim(c, "DRAFT", Null)]
  /\ backendScoped = TRUE
  /\ policiesDb = [p \in PolicyIds |-> Policy(p, "u1", "ACTIVE")]

NextEvidence ==
  \/ \E u \in {a \in AuthUsers : a.role = "ADMIN"} : login(u)
  \/ logout
  \/ fetchClaimsSettled
  \/ closeModal
  \/ \E row \in Rows, next \in {"upload", "documents", "viewPolicy"} : openAction(row, next)
  \/ \E t \in FileTypes : fileChosen(t)
  \/ \E k \in UNION DocumentListings : downloadClick(k)
  \/ \E c \in calls : \E a \in Answers(c) : presignSettled(c, a)
  \/ \E c \in calls : \E a \in Answers(c) : putSettled(c, a)
  \/ \E c \in calls : \E a \in Answers(c), items \in DocumentListings : listSettled(c, a, items)
  \/ \E c \in calls : \E a \in Answers(c), items \in DocumentListings : documentsSettled(c, a, items)
  \/ \E c \in calls : \E a \in Answers(c), p \in PolicyIds : policySettled(c, a, p)
  \/ \E c \in calls : \E a \in Answers(c) : downloadSettled(c, a)

SpecEvidence == InitEvidence /\ [][NextEvidence]_vars

\* the upload modal alone
NextUpload ==
  \/ \E u \in AuthUsers : login(u)
  \/ logout
  \/ fetchClaimsSettled
  \/ closeModal
  \/ \E row \in Rows : openAction(row, "upload")
  \/ \E t \in FileTypes : fileChosen(t)
  \/ \E c \in calls : \E a \in Answers(c) : presignSettled(c, a)
  \/ \E c \in calls : \E a \in Answers(c) : putSettled(c, a)
  \/ \E c \in calls : \E a \in Answers(c), items \in DocumentListings : listSettled(c, a, items)

SpecUpload == InitEvidence /\ [][NextUpload]_vars

(* ------------------------------------------------------------------ *)
(* Specification of the session: AuthProvider mounts over what the     *)
(* storage holds, then logins, logouts and reloads                     *)
(* ------------------------------------------------------------------ *)
InitStored ==
  /\ \E raw \in Tokens \cup {Null} :
       LET s == readStoredAuth(raw)
       IN /\ token = s.token
          /\ user = s.user
          /\ authToken = s.user
          /\ storage = s.token
          /\ page = IF s.user # NoUser THEN "quotes" ELSE "login"
  /\ InitViews
  /\ claimsDb = EmptyClaims
  /\ backendScoped = TRUE
  /\ policiesDb = [p \in PolicyIds |-> Policy(p, "u1", "ACTIVE")]

NextSession ==
  \/ loginSubmit
  \/ \E c \in calls : \E tok \in Tokens \cup {Null} : loginSettled(c, tok)
  \/ logout
  \/ reload
  \/ \E f \in {"coverageAmount", "termMonths"} : \E v \in QuoteInputs(f) : quoteInput(f, v)
  \/ calculateSubmit
  \/ \E r \in createReqs, p \in QuotePremiums : quoteOnSuccess(r, p)
  \/ \E r \in createReqs : quoteOnError(r)

SpecSession == InitStored /\ [][NextSession]_vars

(* ------------------------------------------------------------------ *)
(* Specification of the status filters of the two list views           *)
(* ------------------------------------------------------------------ *)
InitFilters ==
  /\ InitSession
  /\ InitViews
  /\ claimsDb = EmptyClaims
  /\ backendScoped = TRUE
  /\ policiesDb = [p \in PolicyIds |-> Policy(p, "u1", "ACTIVE")]

NextFilters ==
  \/ \E u \in AuthUsers : login(u)
  \/ \E u \in AuthUsers : loginToPolicies(u)
  \/ logout
  \/ fetchClaimsSettled
  \/ \E k \in PolicyQueryKeys : fetchPoliciesSettled(k)
  \/ \E f \in ClaimStatus \cup {"ALL"}, fresh \in BOOLEAN : claimsFilterChange(f, fresh)
  \/ \E f \in PolicyStatus \cup {"ALL"}, fresh \in BOOLEAN : policiesFilterChange(f, fresh)

SpecFilters == InitFilters /\ [][NextFilters]_vars

(* ------------------------------------------------------------------ *)
(* Specification of formatNumber over the numbers of FormatValues      *)
(* ------------------------------------------------------------------ *)
InitFormat ==
  /\ InitSession
  /\ InitPages
  /\ flush = <<>>
  /\ formatValue \in FormatValues
  /\ formatted = <<>>
  /\ claimsDb = EmptyClaims
  /\ backendScoped = TRUE
  /\ policiesDb = [p \in PolicyIds |-> Policy(p, "u1", "ACTIVE")]

NextFormat == formatNumber

SpecFormat == InitFormat /\ [][NextFormat]_vars

(* ------------------------------------------------------------------ *)
(* Specification of the policy lists around a mutation: the answer to  *)
(* a fetch is produced and delivered in two steps                      *)
(* ------------------------------------------------------------------ *)
InitRefresh ==
  /\ InitSession
  /\ InitViews
  /\ claimsDb = EmptyClaims
  /\ backendScoped = TRUE
  /\ policiesDb = [p \in PolicyIds |-> Policy(p, "u1", "ACTIVE")]

\* the mutations of the model that change a list are the administrator's
NextRefresh ==
  \/ \E u \in {a \in AuthUsers : a.role = "ADMIN"} : loginToDashboard(u)
  \/ \E to \in {"dashboard", "policies"} : navigate(to)
  \/ logout
  \/ closePolicyModal
  \/ \E row \in PolicyRows, next \in {"suspend", "reinstate"} : openPolicyAction(row, next)
  \/ \E n \in ReasonLengths : reasonInput(n)
  \/ suspendSubmit
  \/ reinstateClick
  \/ \E r \in policyReqs : policyServerOk(r)
  \/ \E r \in policyReqs : policyOnSuccess(r)
  \/ \E r \in policyReqs : policyOnError(r)
  \/ \E k \in PolicyQueryKeys : fetchPoliciesAnswered(k)
  \/ \E k \in PolicyQueryKeys : fetchPoliciesDelivered(k)
  \/ \E k \in PolicyQueryKeys : fetchPoliciesFailed(k)
  \/ \E k \in PolicyQueryKeys : policiesStaleTimeElapsed(k)

SpecRefresh == InitRefresh /\ [][NextRefresh]_vars

(* ------------------------------------------------------------------ *)
(* Claims about the claim lifecycle                                    *)
(* ------------------------------------------------------------------ *)
\* the mutation requests of a kind that this step issues
Issued(kind) == {r \in reqs' \ reqs : r.kind = kind /\ r.phase = "sent"}

\* the status the table shows for a claim
DisplayedStatus(id) == claims[id].status

\* C1: a submit request is issued only for a claim the table shows as
\* DRAFT: the Submit button of every other row is disabled, and no step
\* issues POST /claims/{id}/submit for a claim shown as SUBMITTED, APPROVED
\* or DENIED.
C1_SubmitOnlyFromDraft ==
  /\ [](\A row \in Rows : row.status # "DRAFT" => ~rowActionOffered(row, "submit"))
  /\ [][\A r \in Issued("submit") : DisplayedStatus(r.claimId) = "DRAFT"]_vars

\* C2: APPROVED and DENIED are terminal: no step issues a submit or an
\* adjudicate request for a claim the table shows as APPROVED or DENIED,
\* whatever the role of the user.
C2_TerminalStatuses ==
  [][\A r \in Issued("submit") \cup Issued("adjudicate") :
       DisplayedStatus(r.claimId) \notin {"APPROVED", "DENIED"}]_vars

\* C3: every adjudicate request with decision DENIED carries payoutAmount 0,
\* whatever the payout field of the form holds.
C3_DeniedPayoutZero ==
  \A r \in reqs : (r.kind = "adjudicate" /\ r.decision = "DENIED") => r.payoutAmount = Num(0)

\* C3 witness: a DENIED request is in flight while the form it was sent
\* from holds a payout of 500.
C3_Witness ==
  /\ modalOpen("adjudicate")
  /\ adjudicateForm = [decision |-> "DENIED", payoutAmount |-> Num(500)]
  /\ \E r \in reqs : r.kind = "adjudicate" /\ r.decision = "DENIED" /\ r.phase = "sent"

\* C4: every adjudicate request with decision APPROVED carries a payout
\* that is a number and not negative: with an absent, NaN or negative
\* payout in the form no request is sent.
C4_ApprovedPayoutNonNegative ==
  \A r \in reqs : (r.kind = "adjudicate" /\ r.decision = "APPROVED") =>
    (r.payoutAmount.t = "number" /\ r.payoutAmount.v >= 0)

\* C4 witness: an APPROVED request with a payout of 500 is in flight.
C4_Witness ==
  \E r \in reqs : /\ r.kind = "adjudicate" /\ r.decision = "APPROVED"
                  /\ r.payoutAmount = Num(500) /\ r.phase = "sent"

\* C5: adjudication is for the ADMIN role: an adjudicate request is issued
\* only while the signed-in user is an ADMIN; for any other user no row
\* offers Review and the adjudicate modal is not open.
C5_AdjudicateAdminOnly ==
  /\ [](user.role # "ADMIN" =>
          /\ \A row \in Rows : ~rowActionOffered(row, "adjudicate")
          /\ ~modalOpen("adjudicate"))
  /\ [][Issued("adjudicate") # {} => user.role = "ADMIN"]_vars

\* C5 witness: an ADMIN has an adjudicate request in flight.
C5_Witness ==
  /\ user.role = "ADMIN"
  /\ \E r \in reqs : r.kind = "adjudicate" /\ r.phase = "sent"

(* ------------------------------------------------------------------ *)
(* Claims about the policy lifecycle                                   *)
(* ------------------------------------------------------------------ *)
\* the policy requests of a kind that this step issues
PolicyIssued(kind) == {r \in policyReqs' \ policyReqs : r.kind = kind /\ r.phase = "sent"}

\* the status the table shows for a policy
DisplayedPolicyStatus(id) == policies[id].status

\* C6: suspending and reinstating are for the ADMIN role, whoever holds
\* the policy: for any other user no row offers Suspend or Reinstate, the
\* user's own rows included, neither modal is open, and a suspend or
\* reinstate request is issued only while the signed-in user is an ADMIN.
C6_SuspendReinstateAdminOnly ==
  /\ [](user.role # "ADMIN" =>
          /\ \A row \in PolicyRows : /\ ~policyActionOffered(row, "suspend")
                                     /\ ~policyActionOffered(row, "reinstate")
          /\ ~policyModalOpen("suspend") /\ ~policyModalOpen("reinstate"))
  /\ [][PolicyIssued("suspend") \cup PolicyIssued("reinstate") # {} => user.role = "ADMIN"]_vars

\* C6 witness: an ADMIN has a suspend request in flight for a policy
\* another user holds.
C6_Witness ==
  /\ user.role = "ADMIN"
  /\ \E r \in policyReqs : /\ r.kind = "suspend" /\ r.phase = "sent"
                            /\ policiesDb[r.policyId].userId # user.userId

\* C7: a suspend request is issued only for a policy the table shows as
\* ACTIVE.
C7_SuspendOnlyActive ==
  [][\A r \in PolicyIssued("suspend") : DisplayedPolicyStatus(r.policyId) = "ACTIVE"]_vars

\* C8: a reinstate request is issued only for a policy the table shows as
\* SUSPENDED.
C8_ReinstateOnlySuspended ==
  [][\A r \in PolicyIssued("reinstate") : DisplayedPolicyStatus(r.policyId) = "SUSPENDED"]_vars

\* C9: a user who is not an ADMIN is offered Renew only on rows whose
\* userId is the user's own, and issues a renew request only for a policy
\* the user holds; an ADMIN is offered Renew on every row.
C9_RenewOwnOrAdmin ==
  /\ [](\A row \in PolicyRows :
          policyActionOffered(row, "renew") <=> (user.role = "ADMIN" \/ row.userId = user.userId))
  /\ [][\A r \in PolicyIssued("renew") :
          user.role = "ADMIN" \/ policiesDb[r.policyId].userId = user.userId]_vars

\* C9 witness: a USER has a renew request in flight for a policy of the
\* user's own.
C9_Witness ==
  /\ user.role = "USER"
  /\ \E r \in policyReqs : /\ r.kind = "renew" /\ r.phase = "sent"
                            /\ policiesDb[r.policyId].userId = user.userId

\* C10: in the session of a USER, with the collaborator scoping the list
\* to the caller, every row of the list of the Policies view and of the
\* Dashboard is a policy whose userId is the user's own.
C10_UserSeesOwnPolicies ==
  user.role = "USER" =>
    \A row \in RowsOf(policies) \cup RowsOf(dashboardPolicies) : row.userId = user.userId

\* C10 witness: a USER is on the Policies view with the list fetched, the
\* collaborator holds a policy of another user, and the cache holds the
\* list an ADMIN was shown, that policy in it.
C10_Witness ==
  /\ user.role = "USER" /\ page = "policies"
  /\ ~policyQueries[policiesQueryKey(user)].stale
  /\ policyQueries[policiesQueryKey(user)].fetch = "idle"
  /\ \E p \in PolicyIds :
       /\ policiesDb[p].userId # user.userId
       /\ \E k \in PolicyQueryKeys : k.scope = "all" /\ policyQueries[k].data[p] = policiesDb[p]

(* ------------------------------------------------------------------ *)
(* Claims about policy creation                                        *)
(* ------------------------------------------------------------------ *)
\* the POST /policies requests in flight
CreatePolicyReqs == {r \in createReqs : r.kind \in {"quoteCreate", "formCreate"}}

\* C11: no POST /policies is issued, from the create form of PoliciesPage
\* or from the Create policy button of QuotesPage, with a coverageAmount
\* that is not greater than 0, a termMonths that is not a whole number
\* greater than 0, or a premium that is not greater than 0.
C11_CreatePolicyValuesValid ==
  \A r \in CreatePolicyReqs :
    /\ Positive(r.coverageAmount)
    /\ IsWhole(r.termMonths) /\ Positive(r.termMonths)
    /\ Positive(r.premium)

\* C11, the create form alone: what createPolicySchema lets through
C11_FormPathValid ==
  \A r \in CreatePolicyReqs :
    r.kind = "formCreate" =>
      /\ Positive(r.coverageAmount)
      /\ IsWhole(r.termMonths) /\ Positive(r.termMonths)
      /\ Positive(r.premium)

(* ------------------------------------------------------------------ *)
(* Claims about the lists after a mutation                             *)
(* ------------------------------------------------------------------ *)
\* C12: once a mutation has succeeded and its success callback has run, a
\* policy list that is displayed and that the cache holds as fetched and
\* fresh shows the policies as the collaborator holds them: the list in
\* the cache was invalidated and fetched again after the mutation.
C12_RefreshAfterWrite ==
  \A k \in ActivePolicyKeys :
    (policyReqs = {} /\ ~policyQueries[k].stale /\ policyQueries[k].fetch = "idle") =>
      policyQueries[k].data = ServerListPolicies(policiesDb, user, backendScoped)

(* ------------------------------------------------------------------ *)
(* Claims about requests in flight and about failures                  *)
(* ------------------------------------------------------------------ *)
\* C13: of each action of the claims view (create, submit, adjudicate,
\* upload) at most one request is outstanding at a time.
C13_OneOutstandingPerAction ==
  /\ \A kind \in {"create", "submit", "adjudicate"} :
       Cardinality({r \in reqs : r.kind = kind}) <= 1
  /\ Cardinality(UploadCalls) <= 1

\* C13, the three mutations alone
C13_OneOutstandingMutation ==
  \A kind \in {"create", "submit", "adjudicate"} :
    Cardinality({r \in reqs : r.kind = kind}) <= 1

\* C14: once a submit of a claim has succeeded (the collaborator no longer
\* holds the claim as DRAFT; every claim starts as a draft), the view
\* issues no further POST /claims/{id}/submit for that claim.
C14_NoSecondSubmit ==
  [][\A r \in Issued("submit") : claimsDb[r.claimId].status = "DRAFT"]_vars

\* the steps in which a call that is not a mutation ends without success
\* and its handler runs
LookupFailed(c, a) ==
  /\ a.result # "ok"
  /\ \/ presignSettled(c, a)
     \/ putSettled(c, a)
     \/ \E items \in DocumentListings : listSettled(c, a, items)
     \/ \E items \in DocumentListings : documentsSettled(c, a, items)
     \/ \E p \in PolicyIds : policySettled(c, a, p)

\* C15: when a mutation, an upload, a document listing or a policy lookup
\* fails, the open modal, the selected claim and policy and the form
\* values are what they were, and the in-progress flag of the failed
\* action is false.
C15_FailureKeepsView ==
  [][((\E r \in reqs : onError(r))
        \/ (\E c \in calls : \E a \in Answers(c) : LookupFailed(c, a)))
      => /\ claimsAction' = claimsAction
         /\ selectedClaim' = selectedClaim
         /\ viewedPolicy' = viewedPolicy
         /\ adjudicateForm' = adjudicateForm
         /\ newClaimForm' = newClaimForm
         /\ \A c \in calls \ calls' :
              /\ c.op \in {"presign", "put", "list"} => ~uploading'
              /\ c.op \in {"list", "documents"} => ~loadingDocuments'
              /\ c.op = "policy" => ~loadingPolicy']_vars

\* C16: every call of the claims view that is not a mutation (upload,
\* document listing, policy lookup, download link) and that fails shows an
\* error toast, and no rejection is left unhandled.
C16_FailuresAreToasted ==
  [][(\E c \in calls : \E a \in Answers(c) :
        LookupFailed(c, a) \/ (a.result # "ok" /\ downloadSettled(c, a)))
      => (lastToast'.variant = "error" /\ ~unhandled')]_vars

\* C19 as stated: the Content-Type of every PUT to the presigned target is
\* the content type declared in the presign request, and is never missing.
C19_HeaderIsDeclaredType ==
  \A c \in calls : c.op = "put" => (c.header = c.declared /\ c.header # "")

\* C19: the Content-Type of every PUT to the presigned target is the
\* content type that the presign response carries; when the response
\* carries none, no header is set and the PUT goes out with the type of
\* the file, which is the declared one (none for a file of unknown type).
C19_HeaderIsPresignedType ==
  \A c \in calls :
    c.op = "put" => c.header = (IF c.returned # "" THEN c.returned ELSE c.declared)

\* a PUT is in flight whose presign response carried a type other than the
\* declared one
C19_Witness ==
  \E c \in calls : c.op = "put" /\ c.returned # "" /\ c.returned # c.declared

C28_NoFailureAfterTransfer ==
  [][\A c \in calls : \A a \in Answers(c) : \A items \in DocumentListings :
       listSettled(c, a, items) => lastToast'.title # "Upload failed"]_vars

\* C29: when the success callback of a create, submit or adjudicate
\* request runs while a modal of another action or of another claim is
\* open, that modal stays open and keeps its selected claim and its forms.
C29_SuccessLeavesOtherModal ==
  [][\A r \in reqs :
       (/\ onSuccess(r)
        /\ claimsAction # NoAction
        /\ (claimsAction # r.kind
             \/ (r.kind # "create" /\ selectedClaim.claimId # r.claimId)))
         => UNCHANGED <<claimsAction, selectedClaim, newClaimForm, adjudicateForm>>]_vars

\* C25: the documents listed in the open documents modal were fetched for
\* the selected claim, and while the request that opening the modal sent
\* for the selected claim is outstanding, the loading indicator is shown.
C25_DocumentsOfSelectedClaim ==
  /\ (modalOpen("documents") /\ documents # {}) => documentsOf = selectedClaim.claimId
  /\ (/\ modalOpen("documents")
      /\ \E c \in calls : c.op = "documents" /\ c.claimId = selectedClaim.claimId)
       => loadingDocuments

\* C25, the list on display alone
C25_ListOfSelectedClaim ==
  (modalOpen("documents") /\ documents # {}) => documentsOf = selectedClaim.claimId

\* C26: the claims list that the Claims view shows to a signed-in user,
\* once it has been fetched, was fetched with the token of that user.
C26_ListsFetchedBySession ==
  (ClaimsPageMounted /\ user # NoUser /\ claimsFetchedBy # NoUser)
    => claimsFetchedBy = user

\* C27: every request of a view that has passed the request interceptor
\* carries the Authorization header of a token, and that token is the one
\* AuthContext held when the interceptor ran.
C27_HeaderIsContextToken ==
  \A r \in outbox : r.intercepted => (r.bearer # NoUser /\ r.bearer = r.context)

\* C27 witness: a request that a view made in its mount effect, before
\* the effect of AuthProvider had run, has passed the interceptor with the
\* token of the session.
C27_Witness ==
  \E r \in outbox : r.via = "mount" /\ r.intercepted /\ r.bearer = user /\ user # NoUser

\* the toast of an id is on display
Displayed(id) == \E k \in DOMAIN toasts : toasts[k].id = id

\* new is old without the toast of the id, the others in their order
WithoutToast(old, new, id) ==
  IF \E k \in DOMAIN old : old[k].id = id
    THEN \E k \in DOMAIN old :
           /\ old[k].id = id
           /\ new = SubSeq(old, 1, k - 1) \o SubSeq(old, k + 1, Len(old))
    ELSE new = old

\* C30: a toast shown with a duration above 0 (4000 when none is given)
\* is removed in the end without a click; a toast with a duration of 0 or
\* less leaves the list only by its dismiss button; and a dismissal by id,
\* by the button or by the timeout, removes that toast alone and keeps
\* the others in their order, also when the toast is no longer there.
C30_ToastsDismissed ==
  /\ \A id \in ToastIds :
       (\E k \in DOMAIN toasts : toasts[k].id = id /\ toasts[k].duration > 0) ~> ~Displayed(id)
  /\ [][\A k \in DOMAIN toasts :
          (/\ toasts[k].duration <= 0
           /\ \A j \in DOMAIN toasts' : toasts'[j].id # toasts[k].id) => dismissClick(toasts[k].id)]_vars
  /\ [][\A id \in ToastIds :
          (timerFires(id) \/ dismissClick(id)) => WithoutToast(toasts, toasts', id)]_vars

\* C30 witness: three toasts were shown; the first had a timeout and is
\* gone with no timeout left pending, the second has a duration of 0 and
\* is on display, followed by the third.
C30_Witness ==
  /\ nextToastId = 3 /\ timers = {}
  /\ Len(toasts) = 2
  /\ toasts[1].id = 2 /\ toasts[1].duration = 0
  /\ toasts[2].id = 3

(* ------------------------------------------------------------------ *)
(* Claims about the session                                            *)
(* ------------------------------------------------------------------ *)
\* C17: isAuthenticated is never true with a token that is expired or
\* lacks sub, role or userId, whether the token came from the storage at
\* load or from a login response.
C17_BadTokenRejected ==
  isAuthenticated => (~Expired(token) /\ parseToken(token) # NoUser)

\* C17 at load alone: what a load takes from the storage is never an
\* expired token or one that lacks a claim
C17_LoadRejectsBadToken ==
  [][reload => (isAuthenticated' => (~Expired(token') /\ parseToken(token') # NoUser))]_vars

\* C18: whenever the session is unauthenticated, after a logout as after a
\* load that found nothing usable, the context token and user are null,
\* the token of the api client is null, the storage entry is gone, and
\* the requests that leave (the login requests) carry no Authorization
\* header.
C18_LogoutTearsDown ==
  ~isAuthenticated =>
    /\ token = Null
    /\ user = NoUser
    /\ authToken = NoUser
    /\ storage = Null
    /\ \A c \in calls : c.op = "login" => c.header = ""

\* a login succeeded, the user signed out, and the next login request is
\* on its way
C18_Witness ==
  /\ ~isAuthenticated
  /\ lastToast = Toast("success", "Welcome back", 0, "")
  /\ \E c \in calls : c.op = "login"

(* ------------------------------------------------------------------ *)
(* Claims about filters, renewals and quotes                           *)
(* ------------------------------------------------------------------ *)
\* C21: a list request carries no status parameter when the filter of its
\* key is ALL and the selected status otherwise, and the status select of
\* each list offers every status of its enum.
C21_StatusFilters ==
  /\ \A c \in listCalls : c.status = (IF c.key = "ALL" THEN "" ELSE c.key)
  /\ ClaimsPageMounted => ClaimStatus \subseteq ClaimFilterOptions
  /\ PoliciesPageMounted => PolicyStatus \subseteq PolicyFilterOptions

\* C21 without the policies select: the requests, and the select of
\* ClaimsPage
C21_ClaimsFilter ==
  /\ \A c \in listCalls : c.status = (IF c.key = "ALL" THEN "" ELSE c.key)
  /\ ClaimStatus \subseteq ClaimFilterOptions

\* C23: with the create form open, a premium in its premium field and no
\* quote request outstanding, the premium is the one returned for the age
\* and the coverageAmount that the form holds; and every create-policy
\* request sends, with its coverageAmount, a premium that was quoted for
\* that coverageAmount.
C23_QuoteTracksInputs ==
  /\ []((/\ PoliciesPageMounted /\ policyModalOpen("create")
         /\ ~createPending("premium")
         /\ createForm.premium \in QuotePremiums)
        => premiumInputs = [age |-> createForm.age,
                            coverageAmount |-> createForm.coverageAmount])
  /\ [][\A r \in createReqs' \ createReqs :
          /\ r.kind = "formCreate" => r.coverageAmount = premiumInputs.coverageAmount
          /\ r.kind = "quoteCreate" => r.coverageAmount = quoteResultInputs.coverageAmount]_vars

\* C23, the premium field of the create form once the requests are
\* resolved
C23_PremiumFieldTracks ==
  (/\ PoliciesPageMounted /\ policyModalOpen("create")
   /\ ~createPending("premium")
   /\ createForm.premium \in QuotePremiums)
    => premiumInputs = [age |-> createForm.age,
                        coverageAmount |-> createForm.coverageAmount]

\* C23, the create-policy requests of the create form
C23_FormRequestQuoted ==
  [][\A r \in createReqs' \ createReqs :
       r.kind = "formCreate" => r.coverageAmount = premiumInputs.coverageAmount]_vars

\* C23, the create-policy requests of the quote summary
C23_SummaryRequestQuoted ==
  [][\A r \in createReqs' \ createReqs :
       r.kind = "quoteCreate" => r.coverageAmount = quoteResultInputs.coverageAmount]_vars

\* C22: whatever the status a row shows, Renew is rendered on it for the
\* holder of the policy and for an ADMIN; with the renew modal open, no
\* request in flight and a whole number of months of 1 or more in the
\* form, Renew policy sends the request; and every renew request carries
\* such a number.
C22_RenewNotGatedByStatus ==
  /\ \A row \in PolicyRows :
       (row.status \in PolicyStatus /\ (isAdmin \/ row.userId = user.userId))
         => policyActionOffered(row, "renew")
  /\ (/\ PoliciesPageMounted /\ policyModalOpen("renew") /\ policyReqs = {}
      /\ renewForm.extendMonths.t = "number" /\ renewForm.extendMonths.v >= 1)
       => ENABLED renewSubmit
  /\ \A r \in policyReqs :
       r.kind = "renew" => (r.extendMonths.t = "number" /\ r.extendMonths.v >= 1)

\* a renew request is in flight for a policy that the list shows, and the
\* collaborator holds, as other than ACTIVE
C22_Witness ==
  \E r \in policyReqs :
    /\ r.kind = "renew" /\ r.phase = "sent"
    /\ selectedPolicy.policyId = r.policyId
    /\ selectedPolicy.status \in {"SUSPENDED", "CANCELLED", "EXPIRED"}
    /\ policiesDb[r.policyId].status = selectedPolicy.status

(* ------------------------------------------------------------------ *)
(* Claims about formatting                                             *)
(* ------------------------------------------------------------------ *)
\* the number a sequence of digit characters and commas reads as, the
\* commas skipped
RECURSIVE ReadNumber(_)
ReadNumber(cs) ==
  IF cs = <<>> THEN 0
  ELSE LET c == cs[Len(cs)]
           front == ReadNumber(SubSeq(cs, 1, Len(cs) - 1))
       IN IF c = "," THEN front
          ELSE 10 * front + ((CHOOSE d \in 1..10 : DigitChars[d] = c) - 1)

\* C24: what formatNumber returns for a non-negative integer consists of
\* decimal digits and commas only, has a comma exactly at every fourth
\* place counted from the right, does not begin with a comma or, unless
\* it is "0", with a zero, and reads as the number.
C24_FormatNumberGroups ==
  formatted # <<>> =>
  /\ \A i \in 1..Len(formatted) :
       /\ formatted[i] \in {DigitChars[d] : d \in 1..10} \cup {","}
       /\ formatted[i] = "," <=> (Len(formatted) - i + 1) % 4 = 0
  /\ formatted[1] # ","
  /\ formatted[1] = "0" => Len(formatted) = 1
  /\ ReadNumber(formatted) = formatValue

\* the number of the repository's test has been formatted
C24_Witness ==
  /\ formatValue = 9876543
  /\ formatted = <<"9", ",", "8", "7", "6", ",", "5", "4", "3">>

====
